---- MODULE Spec2Model ----
(***************************************************************************)
(* BeatChecker license client (src/src/licensing.py): the LicenseManager   *)
(* state machine, its lock, the authority call made outside the lock, the  *)
(* persisted license file and the background refresh started by status().  *)
(*                                                                         *)
(* Python values are modelled as follows.  An Optional[X] is a sequence:   *)
(* <<>> is None and <<x>> is the value x.  A str is a sequence of          *)
(* one-character strings; a fixed message of the code that is never        *)
(* inspected is a one-element sequence holding the whole text.  A naive    *)
(* UTC datetime is a number of seconds since Epoch (midnight).             *)
(***************************************************************************)
EXTENDS Integers, Sequences, FiniteSets, TLC

VARIABLES
    config,            \* config.LICENSE_ACCESS_TOKEN / LICENSE_RSA_PUBLIC_KEY are set
    _license,          \* self._license         : Optional[LicenseKey]
    _license_string,   \* self._license_string  : Optional[str]
    _last_refresh,     \* self._last_refresh    : Optional[datetime]
    _lock,             \* self._lock            : <<>> free, <<t>> held by thread t
    storage,           \* content of self._storage_path : <<>> absent, <<blob>>
    clock,             \* what _now() returns
    pc,                \* where each thread is in the method it runs
    frame,             \* each thread's local variables
    ret,               \* the call that completed in the last step, if any
    answer             \* what Key.activate returned in the last step, if it did

vars == <<config, _license, _license_string, _last_refresh, _lock, storage,
          clock, pc, frame, ret, answer>>

shared == <<_license, _license_string, _last_refresh, storage>>

None == <<>>
Some(x) == <<x>>

----------------------------------------------------------------------------
(* Bounds and the clock.                                                   *)

\* The clock advances at most MaxTicks times, by TickSeconds each time.
MaxTicks == 2

TickSeconds == 60 * 60

DaySeconds == 24 * 60 * 60

\* Day 0 of the model's time axis, as <<year, month, day>>.
Epoch == <<2024, 12, 30>>

\* The process starts at 2024-12-31 23:00:00.
StartTime == DaySeconds + 23 * TickSeconds

Times == {StartTime + i * TickSeconds : i \in 0..MaxTicks}

\* An expiry that is in the future at start, equal to the clock after one
\* tick and in the past after two: 2025-01-01 00:00:00.
ExpSoon == StartTime + TickSeconds

\* An expiry already in the past when the process starts: 2024-12-30 12:00.
ExpPast == 12 * TickSeconds

\* licensing.py:110, the staleness threshold of _should_refresh, in seconds.
REFRESH_AFTER_SECONDS == 3600

\* licensing.py:264, the signature tolerance handed to load_from_string, days.
SIGNATURE_TOLERANCE_DAYS == 30

----------------------------------------------------------------------------
(* Strings.                                                                *)

UpperCase == <<"A","B","C","D","E","F","G","H","I","J","K","L","M",
               "N","O","P","Q","R","S","T","U","V","W","X","Y","Z">>
LowerCase == <<"a","b","c","d","e","f","g","h","i","j","k","l","m",
               "n","o","p","q","r","s","t","u","v","w","x","y","z">>

\* str.lower(), one character.
LowerChar(c) ==
    IF \E i \in 1..26 : UpperCase[i] = c
    THEN LowerCase[CHOOSE i \in 1..26 : UpperCase[i] = c]
    ELSE c

\* str.lower()
str_lower(s) == [i \in 1..Len(s) |-> LowerChar(s[i])]

\* `sub in s` for strings.
str_contains(sub, s) ==
    \E i \in 0..(Len(s) - Len(sub)) : SubSeq(s, i + 1, i + Len(sub)) = sub

Whitespace == {" ", "\t", "\n"}

RECURSIVE str_lstrip(_)
str_lstrip(s) ==
    IF s # <<>> /\ Head(s) \in Whitespace THEN str_lstrip(Tail(s)) ELSE s

RECURSIVE str_rstrip(_)
str_rstrip(s) ==
    IF s # <<>> /\ s[Len(s)] \in Whitespace
    THEN str_rstrip(SubSeq(s, 1, Len(s) - 1)) ELSE s

\* str.strip()
str_strip(s) == str_rstrip(str_lstrip(s))

\* str.replace(old, "") for a one-character old.
RECURSIVE str_remove(_, _)
str_remove(s, old) ==
    IF s = <<>> THEN <<>>
    ELSE IF Head(s) = old THEN str_remove(Tail(s), old)
    ELSE <<Head(s)>> \o str_remove(Tail(s), old)

DigitChars == <<"0","1","2","3","4","5","6","7","8","9">>

\* The decimal digits of n, zero-padded to `width` characters (%Y, %m, %d).
RECURSIVE Zfill(_, _)
Zfill(n, width) ==
    IF width = 0 THEN <<>>
    ELSE Zfill(n \div 10, width - 1) \o <<DigitChars[(n % 10) + 1]>>

----------------------------------------------------------------------------
(* Dates.                                                                  *)

IsLeap(y) == (y % 4 = 0 /\ y % 100 # 0) \/ y % 400 = 0

DaysInMonth(y, m) ==
    IF m = 2 THEN (IF IsLeap(y) THEN 29 ELSE 28)
    ELSE IF m \in {4, 6, 9, 11} THEN 30 ELSE 31

\* The calendar date n days after <<y, m, d>>.
RECURSIVE AddDays(_, _)
AddDays(date, n) ==
    IF n = 0 THEN date
    ELSE IF date[3] < DaysInMonth(date[1], date[2])
         THEN AddDays(<<date[1], date[2], date[3] + 1>>, n - 1)
    ELSE IF date[2] < 12 THEN AddDays(<<date[1], date[2] + 1, 1>>, n - 1)
    ELSE AddDays(<<date[1] + 1, 1, 1>>, n - 1)

DateOf(t) == AddDays(Epoch, t \div DaySeconds)

\* datetime.strftime("%Y-%m-%d")
strftime_ymd(t) ==
    LET d == DateOf(t)
    IN  Zfill(d[1], 4) \o <<"-">> \o Zfill(d[2], 2) \o <<"-">> \o Zfill(d[3], 2)

\* datetime.isoformat() of a datetime without microseconds.
isoformat(t) ==
    LET s == t % DaySeconds
    IN  strftime_ymd(t) \o <<"T">> \o Zfill(s \div 3600, 2) \o <<":">>
        \o Zfill((s % 3600) \div 60, 2) \o <<":">> \o Zfill(s % 60, 2)

----------------------------------------------------------------------------
(* Keys, license records and the external collaborators.                   *)

\* What a caller may hand to activate(): None or "", blanks, a key with
\* surrounding blanks, a long key and a short one.
RawKeys == {<<>>, <<" ", " ">>,
            <<" ","A","B","-","1","2","3","4","5"," ">>,
            <<"A","B","-","1","2","3","4","5">>,
            <<"X","-","1">>}

KEY_LONG == <<"A","B","-","1","2","3","4","5">>
KEY_SHORT == <<"X","-","1">>
Keys == {KEY_LONG, KEY_SHORT}

\* config.py:41
LICENSE_PRODUCT_ID == 31405

\* Helpers.GetMachineCode(v=2) of this device, and some other device's.
LocalMachine == "machine-local"
OtherMachine == "machine-other"

\* The customer the authority has on file for a key (the short key has none).
CustomerOf(key) ==
    IF key = KEY_LONG
    THEN Some([Name |-> <<"Ada">>, Email |-> <<"ada@example.org">>])
    ELSE None

\* A LicenseKey object, as far as licensing.py reads it.
LicenseKey(key, block, expires, machines, sign_date) ==
    [key |-> key,
     product_id |-> LICENSE_PRODUCT_ID,
     block |-> block,
     expires |-> expires,
     created |-> ExpPast,
     sign_date |-> sign_date,
     customer |-> CustomerOf(key),
     max_no_of_machines |-> 1,
     activated_machines |-> machines]

\* What the authority may say of a key: blocked or not, perpetual or
\* expiring, bound to this machine or to another one.
RecordShapes ==
    [block : BOOLEAN, expires : {None, Some(ExpSoon)},
     machines : {{LocalMachine}, {OtherMachine}}]

\* The records the authority may answer with for `key`, signed at sign_date.
AuthorityRecords(key, shapes, sign_date) ==
    {LicenseKey(key, s.block, s.expires, s.machines, sign_date) : s \in shapes}

MSG_SERVER_BLOCKED == <<"T","h","i","s"," ","k","e","y"," ","h","a","s"," ","b","e","e","n"," ","B","l","o","c","k","e","d">>
MSG_SERVER_BLOCKED_UPPER == <<"K","E","Y"," ","B","L","O","C","K","E","D">>
MSG_SERVER_UNREACHABLE == <<"C","o","u","l","d"," ","n","o","t"," ","c","o","n","t","a","c","t"," ","t","h","e"," ","s","e","r","v","e","r",".">>

\* The error texts the authority (or the transport) may answer with; the
\* empty one is a failure without a message.
AuthorityErrors ==
    {<<>>, MSG_SERVER_UNREACHABLE, MSG_SERVER_BLOCKED, MSG_SERVER_BLOCKED_UPPER}

\* Key.activate(token, rsa_pub_key, product_id, key, machine_code): the
\* pairs (LicenseKey | None, message) it may return at time t in environment
\* E.  The authority signs with the time of the call; an environment with
\* sign_clock = FALSE leaves the signing time at StartTime (it is read by
\* status() and load_from_string only).
Key_activate(key, t, E) ==
    {<<None, m>> : m \in E.errors}
    \cup {<<Some(r), <<>>>> :
            r \in AuthorityRecords(key, E.shapes,
                                   IF E.sign_clock THEN t ELSE StartTime)}

\* Helpers.IsOnRightMachine(license, v=2)
IsOnRightMachine(lic) == LocalMachine \in lic.activated_machines

\* LicenseKey.save_as_string(): the signed serialization of the record.
save_as_string(lic) == [kind |-> "signed", payload |-> Some(lic), valid |-> TRUE]

\* File contents that are not a signed record: blank text, and text that
\* does not decode.
BlankBlob == [kind |-> "blank", payload |-> None, valid |-> FALSE]
GarbageBlob == [kind |-> "garbage", payload |-> None, valid |-> FALSE]

\* A signed record whose content was altered after signing.
Tampered(lic) == [kind |-> "signed", payload |-> Some(lic), valid |-> FALSE]

\* LicenseKey.load_from_string(rsa_pub_key, string, days): the record, or
\* None when the text does not decode, the signature does not verify or the
\* signature is older than the tolerance.
load_from_string(blob, days, t) ==
    IF blob.kind = "signed" /\ blob.valid
       /\ ~(blob.payload[1].sign_date + days * DaySeconds < t)
    THEN blob.payload
    ELSE None

----------------------------------------------------------------------------
(* LicenseManager: the messages and the helpers that run under the lock.   *)

MSG_NOT_ACTIVATED == <<"BeatChecker is not activated. Please enter a license key.">>
MSG_BLOCKED == <<"Your license has been blocked. Please contact support.">>
MSG_WRONG_MACHINE == <<"This license is not activated on this machine.">>
MSG_FALLBACK == <<"BeatChecker is not activated.">>
MSG_EXPIRED(expires) ==
    <<"Your license expired on ">> \o strftime_ymd(expires) \o <<".">>

MSG_KEY_REQUIRED == <<"A license key is required.">>
MSG_NO_TOKEN == <<"Licensing is not configured. Missing access token.">>
MSG_NO_RSA_KEY == <<"RSA public key not configured.">>
MSG_ACTIVATION_FAILED == <<"License activation failed.">>
MSG_CANNOT_ACTIVATE_HERE == <<"This license cannot be activated on this machine.">>
MSG_EXPIRED_AT_ACTIVATION(expires) ==
    <<"This license expired on ">> \o strftime_ymd(expires)
        \o <<" and cannot be activated.">>
MSG_REFRESH_FAILED == <<"L","i","c","e","n","s","e"," ","r","e","f","r","e","s","h"," ","f","a","i","l","e","d",".">>
MSG_NONE_ACTIVATED == <<"No license has been activated.">>

BLOCKED_MARK == <<"b","l","o","c","k","e","d">>
MASK_PREFIX == <<"*","*","*">>

\* _mask_key without the two replace() calls of line 33: hyphens and spaces
\* count as characters of the key.
_mask_key_without_replace(key) ==
    IF key = None \/ key[1] = <<>> THEN None
    ELSE IF Len(key[1]) <= 4 THEN Some(key[1])
    ELSE Some(MASK_PREFIX \o SubSeq(key[1], Len(key[1]) - 3, Len(key[1])))

\* _mask_key(key), key an Optional[str]
_mask_key(key) ==
    IF key = None \/ key[1] = <<>> THEN None
    ELSE LET stripped == str_remove(str_remove(key[1], "-"), " ")
         IN  IF Len(stripped) <= 4 THEN Some(stripped)
             ELSE Some(MASK_PREFIX \o SubSeq(stripped, Len(stripped) - 3, Len(stripped)))

\* `lic.expires and lic.expires < _now()`
IsExpired(lic, t) == lic.expires # None /\ lic.expires[1] < t

\* _is_active_unlocked with `<=` for `<` on line 74: a record is taken to be
\* expired at the instant of its expiry.
_is_active_unlocked_inclusive_expiry(lic, t) ==
    IF lic = None THEN FALSE
    ELSE IF lic[1].block THEN FALSE
    ELSE IF lic[1].expires # None /\ lic[1].expires[1] <= t THEN FALSE
    ELSE IsOnRightMachine(lic[1])

\* LicenseManager._is_active_unlocked, on the cached record lic at time t.
_is_active_unlocked(lic, t) ==
    IF lic = None THEN FALSE
    ELSE IF lic[1].block THEN FALSE
    ELSE IF IsExpired(lic[1], t) THEN FALSE
    ELSE IsOnRightMachine(lic[1])

\* _inactive_reason_unlocked with the machine test (line 87) moved before
\* the expiry test (line 84).
_inactive_reason_unlocked_machine_first(lic, t) ==
    IF lic = None THEN MSG_NOT_ACTIVATED
    ELSE IF lic[1].block THEN MSG_BLOCKED
    ELSE IF ~IsOnRightMachine(lic[1]) THEN MSG_WRONG_MACHINE
    ELSE IF IsExpired(lic[1], t) THEN MSG_EXPIRED(lic[1].expires[1])
    ELSE MSG_FALLBACK

\* LicenseManager._inactive_reason_unlocked
_inactive_reason_unlocked(lic, t) ==
    IF lic = None THEN MSG_NOT_ACTIVATED
    ELSE IF lic[1].block THEN MSG_BLOCKED
    ELSE IF IsExpired(lic[1], t) THEN MSG_EXPIRED(lic[1].expires[1])
    ELSE IF ~IsOnRightMachine(lic[1]) THEN MSG_WRONG_MACHINE
    ELSE MSG_FALLBACK

\* _should_refresh without the test of lines 101-102.
_should_refresh_without_key_test(lic, license_string, last_refresh, t) ==
    IF lic # None /\ lic[1].block THEN FALSE
    ELSE IF last_refresh = None THEN TRUE
    ELSE t - last_refresh[1] > REFRESH_AFTER_SECONDS

\* _should_refresh with `>=` for `>` on line 110.
_should_refresh_at_one_hour(lic, license_string, last_refresh, t) ==
    IF license_string = None \/ license_string[1] = <<>> THEN FALSE
    ELSE IF lic # None /\ lic[1].block THEN FALSE
    ELSE IF last_refresh = None THEN TRUE
    ELSE t - last_refresh[1] >= REFRESH_AFTER_SECONDS

\* LicenseManager._should_refresh
_should_refresh(lic, license_string, last_refresh, t) ==
    IF license_string = None \/ license_string[1] = <<>> THEN FALSE
    ELSE IF lic # None /\ lic[1].block THEN FALSE
    ELSE IF last_refresh = None THEN TRUE
    ELSE t - last_refresh[1] > REFRESH_AFTER_SECONDS

\* status_dict with line 149 giving the reason whether or not the license is
\* active.
status_dict_always_explains(lic, t) ==
    [product_id |-> IF lic # None THEN lic[1].product_id ELSE LICENSE_PRODUCT_ID,
     active |-> _is_active_unlocked(lic, t),
     license_key |-> IF lic # None THEN _mask_key(Some(lic[1].key)) ELSE None,
     expires_at |-> IF lic # None /\ lic[1].expires # None
                    THEN Some(isoformat(lic[1].expires[1])) ELSE None,
     customer_name |-> IF lic # None /\ lic[1].customer # None
                       THEN Some(lic[1].customer[1].Name) ELSE None,
     customer_email |-> IF lic # None /\ lic[1].customer # None
                        THEN Some(lic[1].customer[1].Email) ELSE None,
     max_machines |-> IF lic # None THEN Some(lic[1].max_no_of_machines) ELSE None,
     allowed_machines |-> None,
     activated_machines |-> IF lic # None
                            THEN Cardinality(lic[1].activated_machines) ELSE 0,
     activated_at |-> IF lic # None THEN Some(isoformat(lic[1].created)) ELSE None,
     last_validated_at |-> IF lic # None
                           THEN Some(isoformat(lic[1].sign_date)) ELSE None,
     blocked |-> IF lic # None THEN lic[1].block ELSE FALSE,
     message |-> Some(_inactive_reason_unlocked(lic, t))]

\* The dict status() builds under its second lock acquisition.
status_dict(lic, t) ==
    LET active == _is_active_unlocked(lic, t)
    IN  [product_id |-> IF lic # None THEN lic[1].product_id ELSE LICENSE_PRODUCT_ID,
         active |-> active,
         license_key |-> IF lic # None THEN _mask_key(Some(lic[1].key)) ELSE None,
         expires_at |-> IF lic # None /\ lic[1].expires # None
                        THEN Some(isoformat(lic[1].expires[1])) ELSE None,
         customer_name |-> IF lic # None /\ lic[1].customer # None
                           THEN Some(lic[1].customer[1].Name) ELSE None,
         customer_email |-> IF lic # None /\ lic[1].customer # None
                            THEN Some(lic[1].customer[1].Email) ELSE None,
         max_machines |-> IF lic # None THEN Some(lic[1].max_no_of_machines) ELSE None,
         allowed_machines |-> None,
         activated_machines |-> IF lic # None
                                THEN Cardinality(lic[1].activated_machines) ELSE 0,
         activated_at |-> IF lic # None THEN Some(isoformat(lic[1].created)) ELSE None,
         last_validated_at |-> IF lic # None
                               THEN Some(isoformat(lic[1].sign_date)) ELSE None,
         blocked |-> IF lic # None THEN lic[1].block ELSE FALSE,
         message |-> IF active THEN None
                     ELSE Some(_inactive_reason_unlocked(lic, t))]

\* _load_state taking the record out of the file without load_from_string's
\* verification.
_load_state_trusts_file(file, cfg, t) ==
    IF file = None THEN <<None, None>>
    ELSE IF file[1].kind # "signed" THEN <<None, None>>
    ELSE <<file[1].payload, Some(file[1].payload[1].key)>>

\* _load_state with a tolerance of 0 days for the 30 of line 264.
_load_state_zero_tolerance(file, cfg, t) ==
    IF file = None THEN <<None, None>>
    ELSE IF file[1].kind = "blank" THEN <<None, None>>
    ELSE IF ~cfg.rsa THEN <<None, None>>
    ELSE LET lic == load_from_string(file[1], 0, t)
         IN  IF lic # None THEN <<lic, Some(lic[1].key)>> ELSE <<None, None>>

\* LicenseManager._load_state: the <<_license, _license_string>> a manager
\* constructed on `file` at time t starts with.  get_rsa_key() raises inside
\* the try block when no public key is configured.
_load_state(file, cfg, t) ==
    IF file = None THEN <<None, None>>
    ELSE IF file[1].kind = "blank" THEN <<None, None>>
    ELSE IF ~cfg.rsa THEN <<None, None>>
    ELSE LET lic == load_from_string(file[1], SIGNATURE_TOLERANCE_DAYS, t)
         IN  IF lic # None THEN <<lic, Some(lic[1].key)>> ELSE <<None, None>>

\* _save_state without the write of lines 277-278.
_save_state_writes_nothing(lic, file, faults) == {file}

\* _save_state writing the record without a block flag that was set
\* locally: the file never says "blocked".
_save_state_without_block_flag(lic, file, faults) ==
    IF lic = None THEN {file}
    ELSE {Some(save_as_string([lic[1] EXCEPT !.block = FALSE]))}
         \cup (IF faults THEN {file, Some(BlankBlob)} ELSE {})

\* LicenseManager._save_state: the contents the file may have afterwards.
\* The write replaces the file; when open() fails the file is as before, and
\* when the write fails after open() truncated it the file is left blank.
\* Either failure is logged and swallowed.
_save_state(lic, file, faults) ==
    IF lic = None THEN {file}
    ELSE {Some(save_as_string(lic[1]))}
         \cup (IF faults THEN {file, Some(BlankBlob)} ELSE {})

\* The unlink of deactivate() replaced by a truncation: the file stays,
\* empty.
unlink_storage_truncates(file, faults) ==
    IF file = None THEN {None} ELSE {Some(BlankBlob)}

\* The unlink in deactivate(): the file is gone, or the unlink failed (logged)
\* and the file is as before.
unlink_storage(file, faults) ==
    IF file = None THEN {None}
    ELSE {None} \cup (IF faults THEN {file} ELSE {})

----------------------------------------------------------------------------
(* Threads.                                                                *)

\* Threads that call the manager's methods, and the threads status() starts
\* for a background refresh.
Callers == {"c1", "c2"}
Workers == {"w1", "w2"}
Threads == Callers \cup Workers

EmptyFrame == [key |-> None, existing |-> None, result |-> None]

\* pc values at which a thread waits for the lock, and the pc it has once it
\* holds it (`with self._lock:`).
LockSites ==
    [ia_lock |-> "ia_in", ir_lock |-> "ir_in", st_lock1 |-> "st_in1",
     st_lock2 |-> "st_in2", av_lock |-> "av_in", rf_lock1 |-> "rf_in1",
     rf_lockP |-> "rf_inP", rf_lockC |-> "rf_inC", de_lock |-> "de_in"]

\* pc values at which a thread is inside Key.activate.
CallSites == {"av_call", "rf_call"}

\* The method a thread runs, from its pc.
OpOf(label) ==
    CASE label \in {"ia_lock", "ia_in"} -> "is_active"
      [] label \in {"ir_lock", "ir_in"} -> "inactive_reason"
      [] label \in {"st_lock1", "st_in1", "st_spawn", "st_lock2", "st_in2"} -> "status"
      [] label \in {"av_call", "av_lock", "av_in"} -> "activate"
      [] label \in {"rf_lock1", "rf_in1", "rf_call", "rf_lockP", "rf_inP",
                    "rf_lockC", "rf_inC"} -> "refresh"
      [] label \in {"de_lock", "de_in"} -> "deactivate"
      [] OTHER -> "none"

Goto(t, label) == pc' = [pc EXCEPT ![t] = label]

\* A caller begins a call: at any time, or, in an environment without
\* overlap, only while no other thread is running.
MayBegin(t, E) == E.overlap \/ \A u \in Threads \ {t} : pc[u] = "idle"

\* The call thread t runs ends: it returns val or raises LicenseError(val).
\* In a worker thread the outcome is logged by _refresh_worker and the
\* thread ends.
Completes(t, op, kind, val) ==
    /\ pc' = [pc EXCEPT ![t] = "idle"]
    /\ frame' = [frame EXCEPT ![t] = EmptyFrame]
    /\ ret' = Some([thread |-> t, op |-> op, at |-> pc[t],
                    kind |-> IF t \in Workers THEN "logged" ELSE kind,
                    raised |-> kind = "raise", val |-> val])

Returns(t, op, val) == Completes(t, op, "return", val)
Raises(t, op, msg) == Completes(t, op, "raise", msg)

\* `with self._lock:` is entered.
Acquire(t) ==
    /\ pc[t] \in DOMAIN LockSites
    /\ _lock = None
    /\ _lock' = Some(t)
    /\ Goto(t, LockSites[pc[t]])
    /\ ret' = None
    /\ answer' = None
    /\ UNCHANGED <<config, shared, clock, frame>>

\* _now() moves on.
Tick ==
    /\ clock < StartTime + MaxTicks * TickSeconds
    /\ clock' = clock + TickSeconds
    /\ ret' = None
    /\ answer' = None
    /\ UNCHANGED <<config, shared, _lock, pc, frame>>

----------------------------------------------------------------------------
(* is_active() and inactive_reason(), licensing.py:91-97.                  *)

is_active_begin(t, E) ==
    /\ pc[t] = "idle"
    /\ MayBegin(t, E)
    /\ Goto(t, "ia_lock")
    /\ ret' = None
    /\ answer' = None
    /\ UNCHANGED <<config, shared, _lock, clock, frame>>

\* is_active() starting a background refresh, as status() does, when the
\* refresh policy is due.
is_active_body_revalidates(t) ==
    /\ pc[t] = "ia_in"
    /\ _lock' = None
    /\ pc' = IF _should_refresh(_license, _license_string, _last_refresh, clock)
                /\ pc["w1"] = "idle"
             THEN [pc EXCEPT ![t] = "idle", !["w1"] = "rf_lock1"]
             ELSE [pc EXCEPT ![t] = "idle"]
    /\ frame' = [frame EXCEPT ![t] = EmptyFrame]
    /\ ret' = Some([thread |-> t, op |-> "is_active", at |-> pc[t],
                    kind |-> "return", raised |-> FALSE,
                    val |-> <<_is_active_unlocked(_license, clock)>>])
    /\ answer' = None
    /\ UNCHANGED <<config, shared, clock>>

is_active_body(t) ==
    /\ pc[t] = "ia_in"
    /\ _lock' = None
    /\ Returns(t, "is_active", <<_is_active_unlocked(_license, clock)>>)
    /\ answer' = None
    /\ UNCHANGED <<config, shared, clock>>

inactive_reason_begin(t, E) ==
    /\ pc[t] = "idle"
    /\ MayBegin(t, E)
    /\ Goto(t, "ir_lock")
    /\ ret' = None
    /\ answer' = None
    /\ UNCHANGED <<config, shared, _lock, clock, frame>>

inactive_reason_body(t) ==
    /\ pc[t] = "ir_in"
    /\ _lock' = None
    /\ Returns(t, "inactive_reason", _inactive_reason_unlocked(_license, clock))
    /\ answer' = None
    /\ UNCHANGED <<config, shared, clock>>

----------------------------------------------------------------------------
(* activate(license_key), licensing.py:153-188.                            *)

\* `not s` for an Optional[str]
Falsy(s) == s = None \/ s[1] = <<>>

\* activate_outcome raising with its own text whatever the authority said.
activate_outcome_drops_message(result, t) ==
    IF result[1] = None
    THEN [raise |-> TRUE, msg |-> MSG_ACTIVATION_FAILED]
    ELSE IF ~IsOnRightMachine(result[1][1])
    THEN [raise |-> TRUE, msg |-> MSG_CANNOT_ACTIVATE_HERE]
    ELSE IF IsExpired(result[1][1], t)
    THEN [raise |-> TRUE, msg |-> MSG_EXPIRED_AT_ACTIVATION(result[1][1].expires[1])]
    ELSE [raise |-> FALSE, msg |-> <<>>]

\* activate_outcome without lines 176-180: an expired record is committed.
activate_outcome_skips_expiry(result, t) ==
    IF result[1] = None
    THEN [raise |-> TRUE,
          msg |-> IF result[2] # <<>> THEN result[2] ELSE MSG_ACTIVATION_FAILED]
    ELSE IF ~IsOnRightMachine(result[1][1])
    THEN [raise |-> TRUE, msg |-> MSG_CANNOT_ACTIVATE_HERE]
    ELSE [raise |-> FALSE, msg |-> <<>>]

\* Lines 169-180: what activate() does with the authority's answer
\* <<record | None, message>> at time t: the message it raises with, or a
\* commit.
activate_outcome(result, t) ==
    IF result[1] = None
    THEN [raise |-> TRUE,
          msg |-> IF result[2] # <<>> THEN result[2] ELSE MSG_ACTIVATION_FAILED]
    ELSE IF ~IsOnRightMachine(result[1][1])
    THEN [raise |-> TRUE, msg |-> MSG_CANNOT_ACTIVATE_HERE]
    ELSE IF IsExpired(result[1][1], t)
    THEN [raise |-> TRUE, msg |-> MSG_EXPIRED_AT_ACTIVATION(result[1][1].expires[1])]
    ELSE [raise |-> FALSE, msg |-> <<>>]

\* Lines 183-185: the cached state activate() commits.
activate_commit(result, t) ==
    [license |-> result,
     license_string |-> Some(result[1].key),
     last_refresh |-> Some(t)]

\* activate_begin with the `with self._lock` of line 182 opened before the
\* authority call: the lock is held while Key.activate runs.
activate_begin_takes_lock(t, license_key, E) ==
    /\ pc[t] = "idle"
    /\ MayBegin(t, E)
    /\ LET key == str_strip(license_key)
       IN  IF key = <<>>
           THEN Raises(t, "activate", MSG_KEY_REQUIRED) /\ UNCHANGED _lock
           ELSE IF ~config.token
           THEN Raises(t, "activate", MSG_NO_TOKEN) /\ UNCHANGED _lock
           ELSE IF ~config.rsa
           THEN Raises(t, "activate", MSG_NO_RSA_KEY) /\ UNCHANGED _lock
           ELSE /\ _lock = None
                /\ _lock' = Some(t)
                /\ Goto(t, "av_call")
                /\ frame' = [frame EXCEPT ![t].key = Some(key)]
                /\ ret' = None
    /\ answer' = None
    /\ UNCHANGED <<config, shared, clock>>

\* activate_begin with the token test of lines 158-159 before the key test
\* of lines 155-156.
activate_begin_token_first(t, license_key, E) ==
    /\ pc[t] = "idle"
    /\ MayBegin(t, E)
    /\ LET key == str_strip(license_key)
       IN  IF ~config.token THEN Raises(t, "activate", MSG_NO_TOKEN)
           ELSE IF key = <<>> THEN Raises(t, "activate", MSG_KEY_REQUIRED)
           ELSE IF ~config.rsa THEN Raises(t, "activate", MSG_NO_RSA_KEY)
           ELSE /\ Goto(t, "av_call")
                /\ frame' = [frame EXCEPT ![t].key = Some(key)]
                /\ ret' = None
    /\ answer' = None
    /\ UNCHANGED <<config, shared, _lock, clock>>

\* Lines 154-167: the key and the configuration are checked, then the
\* authority call is entered (get_rsa_key() is evaluated for the call).
activate_begin(t, license_key, E) ==
    /\ pc[t] = "idle"
    /\ MayBegin(t, E)
    /\ LET key == str_strip(license_key)
       IN  IF key = <<>> THEN Raises(t, "activate", MSG_KEY_REQUIRED)
           ELSE IF ~config.token THEN Raises(t, "activate", MSG_NO_TOKEN)
           ELSE IF ~config.rsa THEN Raises(t, "activate", MSG_NO_RSA_KEY)
           ELSE /\ Goto(t, "av_call")
                /\ frame' = [frame EXCEPT ![t].key = Some(key)]
                /\ ret' = None
    /\ answer' = None
    /\ UNCHANGED <<config, shared, _lock, clock>>

\* Lines 161-180: Key.activate returns and its answer is checked.
\* activate_call_returns with the "blocked" branch of refresh() (lines
\* 211-222): a failure that says "blocked" marks the cached record blocked
\* and the call returns.
activate_call_returns_with_blocked_branch(t, E) ==
    /\ pc[t] = "av_call"
    /\ \E result \in Key_activate(frame[t].key[1], clock, E) :
          /\ answer' = Some([thread |-> t, op |-> "activate", result |-> result])
          /\ LET o == activate_outcome(result, clock)
             IN  IF result[1] = None /\ _license # None
                    /\ str_contains(BLOCKED_MARK, str_lower(o.msg))
                 THEN /\ _license' = Some([_license[1] EXCEPT !.block = TRUE])
                      /\ Returns(t, "activate", None)
                      /\ UNCHANGED <<_license_string, _last_refresh, storage>>
                 ELSE /\ UNCHANGED shared
                      /\ IF o.raise THEN Raises(t, "activate", o.msg)
                         ELSE /\ Goto(t, "av_lock")
                              /\ frame' = [frame EXCEPT ![t].result = result[1]]
                              /\ ret' = None
    /\ UNCHANGED <<config, _lock, clock>>

activate_call_returns(t, E) ==
    /\ pc[t] = "av_call"
    /\ \E result \in Key_activate(frame[t].key[1], clock, E) :
          /\ answer' = Some([thread |-> t, op |-> "activate", result |-> result])
          /\ LET o == activate_outcome(result, clock)
             IN  IF o.raise THEN Raises(t, "activate", o.msg)
                 ELSE /\ Goto(t, "av_lock")
                      /\ frame' = [frame EXCEPT ![t].result = result[1]]
                      /\ ret' = None
    /\ UNCHANGED <<config, shared, _lock, clock>>

\* Lines 182-186: the commit, under the lock.
activate_body(t, E) ==
    /\ pc[t] = "av_in"
    /\ LET new == activate_commit(frame[t].result, clock)
       IN  /\ _license' = new.license
           /\ _license_string' = new.license_string
           /\ _last_refresh' = new.last_refresh
           /\ storage' \in _save_state(new.license, storage, E.faults)
    /\ _lock' = None
    /\ Returns(t, "activate", None)
    /\ answer' = None
    /\ UNCHANGED <<config, clock>>

----------------------------------------------------------------------------
(* refresh(), licensing.py:190-236.                                        *)

\* refresh_outcome with the "blocked" test left out: every failure takes the
\* blocked branch.
refresh_outcome_any_failure_blocks(result, existing_license) ==
    IF result[1] = None
    THEN LET error_msg == IF result[2] # <<>> THEN result[2] ELSE MSG_REFRESH_FAILED
         IN  IF existing_license # None
             THEN [next |-> "patch", msg |-> error_msg]
             ELSE [next |-> "raise", msg |-> error_msg]
    ELSE [next |-> "commit", msg |-> <<>>]

\* refresh_outcome applying the machine check of activate() (lines 172-173)
\* to the record received: a record bound to another machine is refused
\* and not committed.
refresh_outcome_checks_machine(result, existing_license) ==
    IF result[1] = None
    THEN LET error_msg == IF result[2] # <<>> THEN result[2] ELSE MSG_REFRESH_FAILED
         IN  IF str_contains(BLOCKED_MARK, str_lower(error_msg))
                /\ existing_license # None
             THEN [next |-> "patch", msg |-> error_msg]
             ELSE [next |-> "raise", msg |-> error_msg]
    ELSE IF ~IsOnRightMachine(result[1][1])
    THEN [next |-> "raise", msg |-> MSG_CANNOT_ACTIVATE_HERE]
    ELSE [next |-> "commit", msg |-> <<>>]

\* Lines 208-224: what refresh() does with the authority's answer, given
\* the record it read when it started: "commit" the answer, "patch" the
\* record it read, or "raise" with msg.
refresh_outcome(result, existing_license) ==
    IF result[1] = None
    THEN LET error_msg == IF result[2] # <<>> THEN result[2] ELSE MSG_REFRESH_FAILED
         IN  IF str_contains(BLOCKED_MARK, str_lower(error_msg))
                /\ existing_license # None
             THEN [next |-> "patch", msg |-> error_msg]
             ELSE [next |-> "raise", msg |-> error_msg]
    ELSE [next |-> "commit", msg |-> <<>>]

\* refresh_patch building a fresh blocked record instead of marking the one
\* it read: the expiry is lost.
refresh_patch_rebuilds_record(existing_license, license_string, t) ==
    [license |-> Some([existing_license[1] EXCEPT !.block = TRUE, !.expires = None]),
     license_string |-> license_string,
     last_refresh |-> Some(t)]

\* refresh_patch without line 217: the record it read is written back as it
\* was.
refresh_patch_forgets_flag(existing_license, license_string, t) ==
    [license |-> existing_license,
     license_string |-> license_string,
     last_refresh |-> Some(t)]

\* Lines 217-219: the cached state the blocked branch commits.
refresh_patch(existing_license, license_string, t) ==
    [license |-> Some([existing_license[1] EXCEPT !.block = TRUE]),
     license_string |-> license_string,
     last_refresh |-> Some(t)]

\* refresh_commit without line 229: the record is committed and the
\* last-refresh time is not set.
refresh_commit_without_stamp(result, license_string, t) ==
    [license |-> result,
     license_string |-> license_string,
     last_refresh |-> None]

\* Lines 228-229: the cached state a successful refresh commits.
refresh_commit(result, license_string, t) ==
    [license |-> result,
     license_string |-> license_string,
     last_refresh |-> Some(t)]

refresh_begin(t, E) ==
    /\ pc[t] = "idle"
    /\ MayBegin(t, E)
    /\ t \in Callers
    /\ Goto(t, "rf_lock1")
    /\ ret' = None
    /\ answer' = None
    /\ UNCHANGED <<config, shared, _lock, clock, frame>>

\* refresh_snapshot without the test of lines 192-193: the authority is
\* called with whatever is cached, an empty key when nothing is.
refresh_snapshot_calls_anyway(t) ==
    /\ pc[t] = "rf_in1"
    /\ _lock' = None
    /\ IF ~config.token THEN Raises(t, "refresh", MSG_NO_TOKEN)
       ELSE IF ~config.rsa THEN Raises(t, "refresh", MSG_NO_RSA_KEY)
       ELSE /\ Goto(t, "rf_call")
            /\ frame' = [frame EXCEPT
                            ![t].key = IF Falsy(_license_string) THEN Some(<<>>)
                                       ELSE _license_string,
                            ![t].existing = _license]
            /\ ret' = None
    /\ answer' = None
    /\ UNCHANGED <<config, shared, clock>>

\* refresh_snapshot with the authority call moved inside the `with` block of
\* line 191: the lock is still held when Key.activate is entered.
refresh_snapshot_keeps_lock(t) ==
    /\ pc[t] = "rf_in1"
    /\ IF Falsy(_license_string)
       THEN Raises(t, "refresh", MSG_NONE_ACTIVATED) /\ _lock' = None
       ELSE IF ~config.token
       THEN Raises(t, "refresh", MSG_NO_TOKEN) /\ _lock' = None
       ELSE IF ~config.rsa
       THEN Raises(t, "refresh", MSG_NO_RSA_KEY) /\ _lock' = None
       ELSE /\ Goto(t, "rf_call")
            /\ frame' = [frame EXCEPT ![t].key = _license_string,
                                      ![t].existing = _license]
            /\ ret' = None
            /\ UNCHANGED _lock
    /\ answer' = None
    /\ UNCHANGED <<config, shared, clock>>

\* Lines 191-206: the key and the record are read under the lock; then,
\* with the lock released, the configuration is checked and the authority
\* call is entered.
refresh_snapshot(t) ==
    /\ pc[t] = "rf_in1"
    /\ _lock' = None
    /\ IF Falsy(_license_string) THEN Raises(t, "refresh", MSG_NONE_ACTIVATED)
       ELSE IF ~config.token THEN Raises(t, "refresh", MSG_NO_TOKEN)
       ELSE IF ~config.rsa THEN Raises(t, "refresh", MSG_NO_RSA_KEY)
       ELSE /\ Goto(t, "rf_call")
            /\ frame' = [frame EXCEPT ![t].key = _license_string,
                                      ![t].existing = _license]
            /\ ret' = None
    /\ answer' = None
    /\ UNCHANGED <<config, shared, clock>>

\* refresh_call_returns stamping the last-refresh time when the call
\* failed, so that the next attempt waits an hour.
refresh_call_returns_stamps_failure(t, E) ==
    /\ pc[t] = "rf_call"
    /\ \E result \in Key_activate(frame[t].key[1], clock, E) :
          /\ answer' = Some([thread |-> t, op |-> "refresh", result |-> result])
          /\ LET o == refresh_outcome(result, frame[t].existing)
             IN  CASE o.next = "raise" ->
                         /\ Raises(t, "refresh", o.msg)
                         /\ _last_refresh' = Some(clock)
                   [] o.next = "patch" ->
                         /\ Goto(t, "rf_lockP")
                         /\ ret' = None
                         /\ UNCHANGED <<frame, _last_refresh>>
                   [] o.next = "commit" ->
                         /\ Goto(t, "rf_lockC")
                         /\ frame' = [frame EXCEPT ![t].result = result[1]]
                         /\ ret' = None
                         /\ UNCHANGED _last_refresh
    /\ UNCHANGED <<config, _license, _license_string, storage, _lock, clock>>

\* Lines 200-224: Key.activate returns and its answer is classified.
refresh_call_returns(t, E) ==
    /\ pc[t] = "rf_call"
    /\ \E result \in Key_activate(frame[t].key[1], clock, E) :
          /\ answer' = Some([thread |-> t, op |-> "refresh", result |-> result])
          /\ LET o == refresh_outcome(result, frame[t].existing)
             IN  CASE o.next = "raise" -> Raises(t, "refresh", o.msg)
                   [] o.next = "patch" ->
                         /\ Goto(t, "rf_lockP")
                         /\ ret' = None
                         /\ UNCHANGED frame
                   [] o.next = "commit" ->
                         /\ Goto(t, "rf_lockC")
                         /\ frame' = [frame EXCEPT ![t].result = result[1]]
                         /\ ret' = None
    /\ UNCHANGED <<config, shared, _lock, clock>>

\* Lines 215-222: the blocked branch marks the record it read as blocked.
refresh_patch_body(t, E) ==
    /\ pc[t] = "rf_inP"
    /\ LET new == refresh_patch(frame[t].existing, _license_string, clock)
       IN  /\ _license' = new.license
           /\ _license_string' = new.license_string
           /\ _last_refresh' = new.last_refresh
           /\ storage' \in _save_state(new.license, storage, E.faults)
    /\ _lock' = None
    /\ Returns(t, "refresh", None)
    /\ answer' = None
    /\ UNCHANGED <<config, clock>>

\* Lines 227-230: the answer is committed.
refresh_commit_body(t, E) ==
    /\ pc[t] = "rf_inC"
    /\ LET new == refresh_commit(frame[t].result, _license_string, clock)
       IN  /\ _license' = new.license
           /\ _license_string' = new.license_string
           /\ _last_refresh' = new.last_refresh
           /\ storage' \in _save_state(new.license, storage, E.faults)
    /\ _lock' = None
    /\ Returns(t, "refresh", None)
    /\ answer' = None
    /\ UNCHANGED <<config, clock>>

----------------------------------------------------------------------------
(* deactivate(), licensing.py:238-255.                                     *)

\* Lines 245-247: the cached state deactivate() leaves.
deactivate_clear ==
    [license |-> None, license_string |-> None, last_refresh |-> None]

deactivate_begin(t, E) ==
    /\ pc[t] = "idle"
    /\ MayBegin(t, E)
    /\ Goto(t, "de_lock")
    /\ ret' = None
    /\ answer' = None
    /\ UNCHANGED <<config, shared, _lock, clock, frame>>

\* deactivate_body without the try/except of lines 251-255: a failed unlink
\* raises out of deactivate().
deactivate_body_raises_on_failed_unlink(t, E) ==
    /\ pc[t] = "de_in"
    /\ _lock' = None
    /\ IF Falsy(_license_string)
       THEN /\ Raises(t, "deactivate", MSG_NONE_ACTIVATED)
            /\ UNCHANGED shared
       ELSE /\ _license' = deactivate_clear.license
            /\ _license_string' = deactivate_clear.license_string
            /\ _last_refresh' = deactivate_clear.last_refresh
            /\ storage' \in unlink_storage(storage, E.faults)
            /\ IF storage' = None
               THEN Returns(t, "deactivate", None)
               ELSE Raises(t, "deactivate", <<"OSError">>)
    /\ answer' = None
    /\ UNCHANGED <<config, clock>>

\* deactivate_body raising from inside the locked section without leaving
\* it: the lock stays with the thread whose call has ended.
deactivate_body_raise_keeps_lock(t, E) ==
    /\ pc[t] = "de_in"
    /\ IF Falsy(_license_string)
       THEN /\ Raises(t, "deactivate", MSG_NONE_ACTIVATED)
            /\ UNCHANGED <<shared, _lock>>
       ELSE /\ _lock' = None
            /\ _license' = deactivate_clear.license
            /\ _license_string' = deactivate_clear.license_string
            /\ _last_refresh' = deactivate_clear.last_refresh
            /\ storage' \in unlink_storage(storage, E.faults)
            /\ Returns(t, "deactivate", None)
    /\ answer' = None
    /\ UNCHANGED <<config, clock>>

deactivate_body(t, E) ==
    /\ pc[t] = "de_in"
    /\ _lock' = None
    /\ IF Falsy(_license_string)
       THEN /\ Raises(t, "deactivate", MSG_NONE_ACTIVATED)
            /\ UNCHANGED shared
       ELSE /\ _license' = deactivate_clear.license
            /\ _license_string' = deactivate_clear.license_string
            /\ _last_refresh' = deactivate_clear.last_refresh
            /\ storage' \in unlink_storage(storage, E.faults)
            /\ Returns(t, "deactivate", None)
    /\ answer' = None
    /\ UNCHANGED <<config, clock>>

----------------------------------------------------------------------------
(* status(), licensing.py:112-151.                                         *)

\* Worker threads of W that are not running.
IdleWorkers(W) == {w \in W : pc[w] = "idle"}

\* status() calls that have not yet passed the point where they may start a
\* worker thread.
MayStillSpawn == {c \in Callers : pc[c] \in {"st_lock1", "st_in1", "st_spawn"}}

\* A status() call begins only while the model has a worker thread left for
\* it to start (threading.Thread never runs out of threads).
status_begin(t, W, E) ==
    /\ pc[t] = "idle"
    /\ MayBegin(t, E)
    /\ Cardinality(IdleWorkers(W)) > Cardinality(MayStillSpawn)
    /\ Goto(t, "st_lock1")
    /\ ret' = None
    /\ answer' = None
    /\ UNCHANGED <<config, shared, _lock, clock, frame>>

\* Lines 126-127: the refresh policy is evaluated under the lock.
status_check(t) ==
    /\ pc[t] = "st_in1"
    /\ _lock' = None
    /\ IF _should_refresh(_license, _license_string, _last_refresh, clock)
       THEN Goto(t, "st_spawn")
       ELSE Goto(t, "st_lock2")
    /\ ret' = None
    /\ answer' = None
    /\ UNCHANGED <<config, shared, clock, frame>>

\* _try_background_refresh calling refresh() in the thread of status()
\* instead of starting a thread for it.
_try_background_refresh_inline(t, W) ==
    /\ pc[t] = "st_spawn"
    /\ Goto(t, "rf_lock1")
    /\ ret' = None
    /\ answer' = None
    /\ UNCHANGED <<config, shared, _lock, clock, frame>>

\* Lines 130-131 and 112-121: a daemon thread running refresh() is started.
_try_background_refresh(t, W) ==
    /\ pc[t] = "st_spawn"
    /\ \E w \in IdleWorkers(W) :
          pc' = [pc EXCEPT ![t] = "st_lock2", ![w] = "rf_lock1"]
    /\ ret' = None
    /\ answer' = None
    /\ UNCHANGED <<config, shared, _lock, clock, frame>>

\* Lines 133-151: the snapshot is built under the lock.
status_body(t) ==
    /\ pc[t] = "st_in2"
    /\ _lock' = None
    /\ Returns(t, "status", <<status_dict(_license, clock)>>)
    /\ answer' = None
    /\ UNCHANGED <<config, shared, clock>>

\* Line 121 failing: Thread.start() raises RuntimeError when the process
\* cannot start another thread.  status() has no handler (lines 130-131),
\* so the exception leaves it, with the lock already released.
MSG_CANNOT_START_THREAD == <<"can't start new thread">>

_try_background_refresh_fails(t) ==
    /\ pc[t] = "st_spawn"
    /\ Raises(t, "status", MSG_CANNOT_START_THREAD)
    /\ answer' = None
    /\ UNCHANGED <<config, shared, _lock, clock>>

----------------------------------------------------------------------------
(* GET /license/status, service.py:131-144.                                *)

MSG_STATUS_FAILED == <<"Failed to retrieve license status. Please try again.">>

\* LicenseStatusResponse(**fields), service.py:76-89: the fields given, the
\* others at their defaults.
LicenseStatusResponseDefaults ==
    [product_id |-> None, license_key |-> None, expires_at |-> None,
     customer_name |-> None, customer_email |-> None, max_machines |-> None,
     allowed_machines |-> None, activated_machines |-> None,
     activated_at |-> None, last_validated_at |-> None, blocked |-> FALSE,
     message |-> None]

LicenseStatusResponse(fields) ==
    [f \in DOMAIN LicenseStatusResponseDefaults \cup DOMAIN fields |->
        IF f \in DOMAIN fields THEN fields[f]
        ELSE LicenseStatusResponseDefaults[f]]

\* license_status catching LicenseError only: any other exception leaves
\* the handler.
license_status_catches_license_errors(outcome) ==
    IF outcome.raised
    THEN [raised |-> TRUE, val |-> outcome.val]
    ELSE [raised |-> FALSE, val |-> <<LicenseStatusResponse(outcome.val[1])>>]

\* What the handler answers when license_manager.status ended with
\* `outcome` (returned a dict, or raised).
license_status(outcome) ==
    IF outcome.raised
    THEN [raised |-> FALSE,
          val |-> <<LicenseStatusResponse([active |-> FALSE,
                                           message |-> Some(MSG_STATUS_FAILED)])>>]
    ELSE [raised |-> FALSE, val |-> <<LicenseStatusResponse(outcome.val[1])>>]

----------------------------------------------------------------------------
(* POST /analyze and POST /save, service.py:206-281: the license gate and  *)
(* what follows it.                                                        *)

Endpoints == {"analyze", "save"}

\* pc values of a request: waiting for and holding the lock inside
\* license_manager.is_active() (lines 210, 248), the same inside
\* license_manager.inactive_reason() (lines 211, 249), and past the gate,
\* in the download and analysis or in the copy.
EndpointSites ==
    [analyze |-> [lock1 |-> "an_lock1", in1 |-> "an_in1", lock2 |-> "an_lock2",
                  in2 |-> "an_in2", work |-> "an_work"],
     save |-> [lock1 |-> "sv_lock1", in1 |-> "sv_in1", lock2 |-> "sv_lock2",
               in2 |-> "sv_in2", work |-> "sv_work"]]

\* How a request that passed the gate may end: lines 213-241 (202, or 400,
\* 502, 500) and lines 251-281 (200, or 500).
EndpointOutcomes ==
    [analyze |-> {"http_202", "http_400", "http_502", "http_500"},
     save |-> {"http_200", "http_500"}]

\* The request ends with an HTTP status.
Responds(t, ep, status, detail) ==
    /\ pc' = [pc EXCEPT ![t] = "idle"]
    /\ ret' = Some([thread |-> t, op |-> ep, at |-> pc[t], kind |-> status,
                    raised |-> status \notin {"http_200", "http_202"},
                    val |-> detail])

endpoint_begin(t, ep, E) ==
    /\ pc[t] = "idle"
    /\ MayBegin(t, E)
    /\ Goto(t, EndpointSites[ep].lock1)
    /\ ret' = None
    /\ answer' = None
    /\ UNCHANGED <<config, shared, _lock, clock, frame>>

\* `with self._lock:` of is_active() or inactive_reason() is entered.
endpoint_acquire(t, ep) ==
    /\ pc[t] \in {EndpointSites[ep].lock1, EndpointSites[ep].lock2}
    /\ _lock = None
    /\ _lock' = Some(t)
    /\ Goto(t, IF pc[t] = EndpointSites[ep].lock1
               THEN EndpointSites[ep].in1 ELSE EndpointSites[ep].in2)
    /\ ret' = None
    /\ answer' = None
    /\ UNCHANGED <<config, shared, clock, frame>>

\* endpoint_check without the test of lines 210 and 248: every request goes
\* on to its work.
endpoint_check_lets_all_pass(t, ep) ==
    /\ pc[t] = EndpointSites[ep].in1
    /\ _lock' = None
    /\ Goto(t, EndpointSites[ep].work)
    /\ ret' = None
    /\ answer' = None
    /\ UNCHANGED <<config, shared, clock, frame>>

\* Lines 210 and 248: `if not license_manager.is_active():`
endpoint_check(t, ep) ==
    /\ pc[t] = EndpointSites[ep].in1
    /\ _lock' = None
    /\ IF _is_active_unlocked(_license, clock)
       THEN Goto(t, EndpointSites[ep].work)
       ELSE Goto(t, EndpointSites[ep].lock2)
    /\ ret' = None
    /\ answer' = None
    /\ UNCHANGED <<config, shared, clock, frame>>

\* Lines 211 and 249: HTTPException(403, detail=inactive_reason()).
endpoint_rejects(t, ep) ==
    /\ pc[t] = EndpointSites[ep].in2
    /\ _lock' = None
    /\ Responds(t, ep, "http_403", _inactive_reason_unlocked(_license, clock))
    /\ answer' = None
    /\ UNCHANGED <<config, shared, clock, frame>>

\* Lines 213-241 and 251-281: the download and analysis, or the copy, and
\* the response.
endpoint_work(t, ep) ==
    /\ pc[t] = EndpointSites[ep].work
    /\ \E status \in EndpointOutcomes[ep] : Responds(t, ep, status, <<>>)
    /\ answer' = None
    /\ UNCHANGED <<config, shared, _lock, clock, frame>>

----------------------------------------------------------------------------
(* The manager's construction and the specification.                       *)

\* What the license file may hold when the process starts: nothing, blank
\* text, text that does not decode, a record altered after signing, a record
\* signed longer ago than the tolerance, or a record the authority signed
\* just before (perhaps one that expired meanwhile).
StaleSignDate == StartTime - (SIGNATURE_TOLERANCE_DAYS + 1) * DaySeconds

ValidRecord == LicenseKey(KEY_LONG, FALSE, None, {LocalMachine}, StartTime)
ExpiredRecord == LicenseKey(KEY_LONG, FALSE, Some(ExpPast), {OtherMachine}, StartTime)
StaleRecord == LicenseKey(KEY_LONG, FALSE, None, {LocalMachine}, StaleSignDate)

InitFiles ==
    {None, Some(BlankBlob), Some(GarbageBlob), Some(Tampered(ValidRecord)),
     Some(save_as_string(StaleRecord)), Some(save_as_string(ValidRecord)),
     Some(save_as_string(ExpiredRecord))}

Configs == {[token |-> TRUE, rsa |-> TRUE], [token |-> FALSE, rsa |-> TRUE],
            [token |-> TRUE, rsa |-> FALSE]}

\* LicenseManager.__init__, lines 58-66, on one of `files`.
InitOf(files) ==
    /\ config \in Configs
    /\ storage \in files
    /\ clock = StartTime
    /\ _license = _load_state(storage, config, clock)[1]
    /\ _license_string = _load_state(storage, config, clock)[2]
    /\ _last_refresh = None
    /\ _lock = None
    /\ pc = [t \in Threads |-> "idle"]
    /\ frame = [t \in Threads |-> EmptyFrame]
    /\ ret = None
    /\ answer = None

\* The steps of callers C and worker threads W in environment E.
NextOf(C, W, E) ==
    \/ Tick
    \/ \E t \in C \cup W : Acquire(t)
    \/ \E t \in C : is_active_begin(t, E)
    \/ \E t \in C : is_active_body(t)
    \/ \E t \in C : inactive_reason_begin(t, E)
    \/ \E t \in C : inactive_reason_body(t)
    \/ \E t \in C : status_begin(t, W, E)
    \/ \E t \in C : status_check(t)
    \/ \E t \in C : _try_background_refresh(t, W)
    \/ \E t \in C : status_body(t)
    \/ \E t \in C : \E k \in E.raw : activate_begin(t, k, E)
    \/ \E t \in C : activate_call_returns(t, E)
    \/ \E t \in C : activate_body(t, E)
    \/ \E t \in C : refresh_begin(t, E)
    \/ \E t \in C \cup W : refresh_snapshot(t)
    \/ \E t \in C \cup W : refresh_call_returns(t, E)
    \/ \E t \in C \cup W : refresh_patch_body(t, E)
    \/ \E t \in C \cup W : refresh_commit_body(t, E)
    \/ \E t \in C : deactivate_begin(t, E)
    \/ \E t \in C : deactivate_body(t, E)

\* Environments.  raw: the keys callers hand to activate(); shapes, errors:
\* the authority's answers; sign_clock: the authority's signing time follows
\* the clock; faults: writing or deleting the license file may fail;
\* overlap: calls may begin while other threads run.

\* One key, every answer about a record bound to this machine, calls
\* overlapping freely.
EnvConcurrent ==
    [raw |-> {k \in RawKeys : str_strip(k) # KEY_SHORT},
     shapes |-> {s \in RecordShapes : s.machines = {LocalMachine}},
     errors |-> AuthorityErrors,
     sign_clock |-> FALSE, faults |-> FALSE, overlap |-> TRUE]

\* Both keys, every answer, signing times, storage faults; a call begins
\* when no other thread runs (a background refresh still overlaps the
\* status() call that started it).
EnvData ==
    [raw |-> RawKeys, shapes |-> RecordShapes, errors |-> AuthorityErrors,
     sign_clock |-> TRUE, faults |-> TRUE, overlap |-> FALSE]

Init == InitOf({None, Some(GarbageBlob), Some(save_as_string(ValidRecord))})

\* One caller and one background worker, calls overlapping.
Next == NextOf({"c1"}, {"w1"}, EnvConcurrent)

Spec == Init /\ [][Next]_vars

InitData == InitOf(InitFiles)

\* One caller and one background worker, full data.
NextData == NextOf({"c1"}, {"w1"}, EnvData)

SpecData == InitData /\ [][NextData]_vars

\* One key, perpetual records bound to this machine that are blocked or
\* not, a failure that says "blocked" and one that does not; calls
\* overlapping freely.
EnvPair ==
    [raw |-> {KEY_LONG},
     shapes |-> {s \in RecordShapes :
                   s.machines = {LocalMachine} /\ s.expires = None},
     errors |-> {MSG_SERVER_UNREACHABLE, MSG_SERVER_BLOCKED},
     sign_clock |-> FALSE, faults |-> FALSE, overlap |-> TRUE]

\* A configured manager that starts unactivated or on a valid license file.
InitPair ==
    /\ InitOf({None, Some(save_as_string(ValidRecord))})
    /\ config = [token |-> TRUE, rsa |-> TRUE]

\* Two callers and one background worker, calls overlapping.
NextPair == NextOf({"c1", "c2"}, {"w1"}, EnvPair)

SpecPair == InitPair /\ [][NextPair]_vars

\* One key, one perpetual valid record, a failure that says "blocked";
\* calls overlapping freely.
EnvLive ==
    [raw |-> {KEY_LONG},
     shapes |-> {s \in RecordShapes :
                   s.machines = {LocalMachine} /\ s.expires = None /\ ~s.block},
     errors |-> {MSG_SERVER_BLOCKED},
     sign_clock |-> FALSE, faults |-> FALSE, overlap |-> TRUE]

\* A configured manager that starts on a valid license file.
InitLive ==
    /\ InitOf({Some(save_as_string(ValidRecord))})
    /\ config = [token |-> TRUE, rsa |-> TRUE]

NextLive == NextOf({"c1", "c2"}, {"w1"}, EnvLive)

\* The steps thread t takes by itself once it runs a call: every step but
\* the start of a call, the wait for the lock and the return of Key.activate.
Runs(t, W, E) ==
    \/ is_active_body(t)
    \/ inactive_reason_body(t)
    \/ status_check(t)
    \/ _try_background_refresh(t, W)
    \/ status_body(t)
    \/ activate_body(t, E)
    \/ refresh_snapshot(t)
    \/ refresh_patch_body(t, E)
    \/ refresh_commit_body(t, E)
    \/ deactivate_body(t, E)

\* Threads are scheduled fairly: a thread that can take a step of its own
\* takes it, and a thread waiting for the lock gets it if the lock is free
\* again and again.  Nothing makes a caller start a call, the clock move or
\* Key.activate return.
Fairness ==
    \A t \in {"c1", "c2", "w1"} :
        WF_vars(Runs(t, {"w1"}, EnvLive)) /\ SF_vars(Acquire(t))

\* Two callers and one background worker under fair scheduling.
SpecLive == InitLive /\ [][NextLive]_vars /\ Fairness

\* One key, records bound to this machine, a failure that says "blocked";
\* a call begins when no other thread runs.
EnvService ==
    [raw |-> {KEY_LONG},
     shapes |-> {s \in RecordShapes : s.machines = {LocalMachine}},
     errors |-> {MSG_SERVER_BLOCKED},
     sign_clock |-> TRUE, faults |-> FALSE, overlap |-> FALSE]

\* One caller and one background worker, in a process where starting a
\* thread may fail.
NextService ==
    \/ NextOf({"c1"}, {"w1"}, EnvService)
    \/ \E t \in {"c1"} : _try_background_refresh_fails(t)

SpecService == InitPair /\ [][NextService]_vars

\* Keys of every length around the masking threshold, with and without
\* hyphens and spaces.
KEY_GROUPED == <<"A","B","C","D","-","1","2","3","4","-","E","F","G","H","-","5","6","7","8">>
KEY_TWO == <<"A","B">>
KEY_FOUR == <<"A","B","C","D">>
KEY_FOUR_HYPHEN == <<"A","B","-","C","D">>
KEY_FIVE == <<"A","B","C","D","E">>
KEY_FIVE_SPACED == <<"A"," ","B","-","C"," ","D","-","E">>
KEY_HYPHEN == <<"-">>

\* Those keys, records that are valid here, a failure that says "blocked";
\* a call begins when no other thread runs.
EnvMask ==
    [raw |-> {KEY_GROUPED, KEY_TWO, KEY_FOUR, KEY_FOUR_HYPHEN, KEY_FIVE,
              KEY_FIVE_SPACED, KEY_HYPHEN},
     shapes |-> {s \in RecordShapes :
                   s.machines = {LocalMachine} /\ s.expires = None /\ ~s.block},
     errors |-> {MSG_SERVER_BLOCKED},
     sign_clock |-> FALSE, faults |-> FALSE, overlap |-> FALSE]

\* One caller and one background worker, many keys.
NextMask == NextOf({"c1"}, {"w1"}, EnvMask)

SpecMask == InitPair /\ [][NextMask]_vars

\* One caller and two background workers on a valid license file, calls
\* overlapping.
NextFanOut == NextOf({"c1"}, {"w1", "w2"}, EnvLive)

SpecFanOut == InitLive /\ [][NextFanOut]_vars

\* One caller, which also sends analyze and save requests, and one
\* background worker, calls overlapping.
NextGate ==
    \/ NextOf({"c1"}, {"w1"}, EnvConcurrent)
    \/ \E t \in {"c1"} : \E ep \in Endpoints : endpoint_begin(t, ep, EnvConcurrent)
    \/ \E t \in {"c1"} : \E ep \in Endpoints : endpoint_acquire(t, ep)
    \/ \E t \in {"c1"} : \E ep \in Endpoints : endpoint_check(t, ep)
    \/ \E t \in {"c1"} : \E ep \in Endpoints : endpoint_rejects(t, ep)
    \/ \E t \in {"c1"} : \E ep \in Endpoints : endpoint_work(t, ep)

SpecGate == Init /\ [][NextGate]_vars

----------------------------------------------------------------------------
(* Properties.  A step "answers" thread t when Key.activate returns to it,  *)
(* and "completes" a call when the call returns or raises in that step.     *)

\* msg contains "blocked" in some letter case.
MentionsBlocked(msg) ==
    \E i \in 0..(Len(msg) - Len(BLOCKED_MARK)) :
        \A j \in 1..Len(BLOCKED_MARK) : LowerChar(msg[i + j]) = BLOCKED_MARK[j]

\* This step, Key.activate answers thread t's `op` call with no record.
Rejects(t, op) ==
    /\ answer' # None
    /\ answer'[1].thread = t
    /\ answer'[1].op = op
    /\ answer'[1].result[1] = None

\* This step, Key.activate answers thread t's `op` call with a record.
Grants(t, op) ==
    /\ answer' # None
    /\ answer'[1].thread = t
    /\ answer'[1].op = op
    /\ answer'[1].result[1] # None

\* This step, thread t's `op` call raises.
RaisesNow(t, op) ==
    ret' # None /\ ret'[1].thread = t /\ ret'[1].op = op /\ ret'[1].raised

\* This step, thread t's `op` call returns, from the locked section `at`.
ReturnsNow(t, op, at) ==
    /\ pc[t] = at
    /\ ret' # None
    /\ ret'[1].thread = t
    /\ ret'[1].op = op
    /\ ~ret'[1].raised

\* IsActive() gives the same answer before and after this step.
ActiveKept ==
    _is_active_unlocked(_license, clock) = _is_active_unlocked(_license', clock')

\* C1: a refresh() whose authority call fails with a message that does not
\* contain "blocked" raises, and the step leaves the cached record, the
\* cached key, the last-refresh stamp and the license file as they were; a
\* license that was active stays active.
C1_FailedRefreshKeepsState ==
    [][\A t \in Threads :
         (Rejects(t, "refresh") /\ ~MentionsBlocked(answer'[1].result[2]))
         => /\ RaisesNow(t, "refresh")
            /\ UNCHANGED shared
            /\ ActiveKept]_vars

\* C1 witness: a refresh has just raised on the answer "Could not contact
\* the server." while the cached license is active.
C1_Witness ==
    /\ ret # None /\ ret[1].op = "refresh" /\ ret[1].raised
    /\ answer # None /\ answer[1].result = <<None, MSG_SERVER_UNREACHABLE>>
    /\ _is_active_unlocked(_license, clock)

\* C2: a refresh() answered with no record and a message containing
\* "blocked" in any letter case does not raise: it goes on to the blocked
\* branch, and when that branch completes the call returns, the cached
\* record is the record the call read when it started with block = TRUE and
\* every other field as it was, and IsActive() is false.
C2_BlockedAnswerMarksRecord ==
    [][\A t \in Threads :
         /\ (Rejects(t, "refresh") /\ MentionsBlocked(answer'[1].result[2]))
            => (ret' = None /\ pc'[t] = "rf_lockP")
         /\ (pc[t] = "rf_inP" /\ pc'[t] # "rf_inP")
            => /\ ReturnsNow(t, "refresh", "rf_inP")
               /\ _license' # None
               /\ _license'[1].block
               /\ \A f \in DOMAIN _license'[1] \ {"block"} :
                     _license'[1][f] = frame[t].existing[1][f]
               /\ ~_is_active_unlocked(_license', clock')]_vars

\* C2 witness: the blocked branch has just completed on a record that has an
\* expiry and a customer, which the blocked record still has.
C2_Witness ==
    /\ ret # None /\ ret[1].op = "refresh" /\ ret[1].at = "rf_inP"
    /\ _license # None /\ _license[1].block
    /\ _license[1].expires = Some(ExpSoon)
    /\ _license[1].customer # None

\* C3: blocked is sticky.  A step that leaves a cached record with
\* block = FALSE where the cached record was blocked, or where there was
\* none, is the commit by activate() or refresh() of a record the authority
\* answered with, and that record is not blocked.  No failed call and no
\* read clears the flag.
C3_BlockedIsSticky ==
    [][(/\ _license' # None
        /\ ~_license'[1].block
        /\ (_license = None \/ _license[1].block))
       => \E t \in Threads :
             /\ pc[t] \in {"av_in", "rf_inC"}
             /\ pc'[t] = "idle"
             /\ frame[t].result = _license'
             /\ ~frame[t].result[1].block]_vars

\* C3 witness: a call has just raised while the cached record is blocked.
C3_Witness ==
    /\ _license # None /\ _license[1].block
    /\ ret # None /\ ret[1].raised /\ ret[1].op \in {"activate", "refresh"}

\* This step, thread t completes the locked section `at` (the last step of
\* the call it runs).
Leaves(t, at) == pc[t] = at /\ pc'[t] = "idle"

\* C4: an activate() that Key.activate answers with no record raises with
\* the authority's message (with "License activation failed." when the
\* authority gave none), and the call changes nothing: neither the step
\* that enters the authority call nor the step that receives the answer
\* touches the cached record, the cached key, the last-refresh stamp or the
\* license file, and IsActive() keeps its value.
C4_RejectedActivateChangesNothing ==
    [][\A t \in Threads :
         /\ Rejects(t, "activate")
            => /\ RaisesNow(t, "activate")
               /\ ret'[1].val = IF answer'[1].result[2] # <<>>
                                THEN answer'[1].result[2]
                                ELSE MSG_ACTIVATION_FAILED
               /\ UNCHANGED shared
               /\ ActiveKept
         /\ (pc[t] # pc'[t] /\ "av_call" \in {pc[t], pc'[t]})
            => UNCHANGED shared]_vars

\* C4 witness: an activate() has just raised "Could not contact the
\* server.", the authority's own text, while the cached license is active.
C4_Witness ==
    /\ ret # None /\ ret[1].op = "activate" /\ ret[1].raised
    /\ ret[1].val = MSG_SERVER_UNREACHABLE
    /\ answer # None /\ answer[1].result = <<None, MSG_SERVER_UNREACHABLE>>
    /\ _is_active_unlocked(_license, clock)

\* C5 as stated: every record activate() commits is bound to this machine
\* and unexpired at the moment of the commit.
C5_CommittedUnexpiredAtCommit ==
    [][\A t \in Threads :
         Leaves(t, "av_in")
         => /\ IsOnRightMachine(_license'[1])
            /\ ~IsExpired(_license'[1], clock')]_vars

\* C5: when Key.activate answers activate() with a record that is not bound
\* to this machine, or that is expired when the answer is checked, the call
\* raises and the cached record, the cached key, the last-refresh stamp and
\* the license file stay as they were; otherwise the call goes on to commit
\* exactly that record.  The record activate() commits is the one that
\* passed the check, so it is bound to this machine; it was unexpired when
\* it was checked (the clock may move on before the commit).
C5_ActivateChecksBeforeCommit ==
    [][\A t \in Threads :
         /\ Grants(t, "activate")
            => LET r == answer'[1].result[1][1]
               IN  IF ~IsOnRightMachine(r) \/ IsExpired(r, clock)
                   THEN RaisesNow(t, "activate") /\ UNCHANGED shared
                   ELSE /\ ret' = None
                        /\ pc'[t] = "av_lock"
                        /\ frame'[t].result = Some(r)
                        /\ UNCHANGED shared
         /\ (pc[t] = "av_lock" /\ pc'[t] # pc[t])
            => (pc'[t] = "av_in" /\ frame'[t] = frame[t] /\ UNCHANGED shared)
         /\ Leaves(t, "av_in")
            => /\ ReturnsNow(t, "activate", "av_in")
               /\ _license' = frame[t].result
               /\ _license_string' = Some(_license'[1].key)
               /\ IsOnRightMachine(_license'[1])]_vars

\* C5 witness: an activate() has just raised because the record the
\* authority answered with, bound to this machine, had already expired.
C5_Witness ==
    /\ ret # None /\ ret[1].op = "activate" /\ ret[1].raised
    /\ answer # None /\ answer[1].result[1] # None
    /\ IsOnRightMachine(answer[1].result[1][1])
    /\ IsExpired(answer[1].result[1][1], clock)
    /\ ret[1].val = MSG_EXPIRED_AT_ACTIVATION(ExpSoon)

\* The record activate() is about to commit is one C6 speaks of: not
\* blocked, not expired, bound to this machine.
C6_GoodCommit(t) ==
    /\ Leaves(t, "av_in")
    /\ ~frame[t].result[1].block
    /\ ~IsExpired(frame[t].result[1], clock)
    /\ IsOnRightMachine(frame[t].result[1])

\* What a LicenseManager constructed now, on the license file as this step
\* leaves it, starts with.
C6_Reloaded == _load_state(storage', config, clock')

\* C6 as stated: after such an activate() IsActive() is true, and a manager
\* constructed on the license file has the same record, is active and has
\* the same expiry.
C6_ReloadAlwaysReproduces ==
    [][\A t \in Threads :
         C6_GoodCommit(t)
         => /\ _is_active_unlocked(_license', clock')
            /\ C6_Reloaded[1] = _license'
            /\ _is_active_unlocked(C6_Reloaded[1], clock')]_vars

\* C6: after an activate() that commits a record that is not blocked, not
\* expired and bound to this machine, IsActive() is true.  The license file
\* then holds the serialization of that record, or, when the write failed,
\* what it held before or nothing but blank text.  When it holds the
\* serialization, a manager constructed on it has the same record and the
\* same cached key, is active and has the same expiry.
C6_ActivateThenReload ==
    [][\A t \in Threads :
         C6_GoodCommit(t)
         => /\ ReturnsNow(t, "activate", "av_in")
            /\ _license' = frame[t].result
            /\ _is_active_unlocked(_license', clock')
            /\ storage' \in {Some(save_as_string(_license'[1])), storage,
                             Some(BlankBlob)}
            /\ (storage' = Some(save_as_string(_license'[1])))
               => /\ C6_Reloaded = <<_license', _license_string'>>
                  /\ _is_active_unlocked(C6_Reloaded[1], clock')
                  /\ C6_Reloaded[1][1].expires = _license'[1].expires]_vars

\* C6 witness: an activate() has just returned, having committed an active
\* record with an expiry, signed before the clock last moved, and the
\* license file holds its serialization and loads back to it.
C6_Witness ==
    /\ ret # None /\ ret[1].op = "activate" /\ ~ret[1].raised
    /\ _is_active_unlocked(_license, clock)
    /\ _license[1].expires = Some(ExpSoon)
    /\ _license[1].sign_date < clock
    /\ storage = Some(save_as_string(_license[1]))
    /\ _load_state(storage, config, clock)[1] = _license

\* This step, thread t's deactivate() returns.
C7_Deactivated(t) == Leaves(t, "de_in") /\ ret' # None /\ ~ret'[1].raised

\* The cached state is cleared and status() reports what it reports of a
\* manager that was never activated.
C7_Cleared ==
    /\ _license' = None
    /\ _license_string' = None
    /\ _last_refresh' = None
    /\ status_dict(_license', clock').active = FALSE
    /\ status_dict(_license', clock').message = Some(MSG_NOT_ACTIVATED)

\* C7 as stated: after deactivate() returns the cached state is cleared and
\* the license file is absent.
C7_FileAlwaysAbsent ==
    [][\A t \in Threads :
         C7_Deactivated(t) => (C7_Cleared /\ storage' = None)]_vars

\* C7: after deactivate() returns, the cached record, the cached key and
\* the last-refresh stamp are cleared, and the license file is absent or,
\* when deleting it failed, as it was; status() then reports active = false
\* with the not-activated message, and so does every status() call that
\* finds no cached record.
C7_DeactivateClears ==
    [][\A t \in Threads :
         /\ C7_Deactivated(t)
            => (C7_Cleared /\ storage' \in {None, storage})
         /\ (Leaves(t, "st_in2") /\ _license = None)
            => /\ ReturnsNow(t, "status", "st_in2")
               /\ ret'[1].val[1].active = FALSE
               /\ ret'[1].val[1].message = Some(MSG_NOT_ACTIVATED)
               /\ ret'[1].val[1].license_key = None]_vars

\* C7 witness: deactivate() has just returned and the license file, which
\* an earlier commit wrote, is gone.
C7_Witness ==
    /\ ret # None /\ ret[1].op = "deactivate" /\ ~ret[1].raised
    /\ _license = None /\ _license_string = None /\ _last_refresh = None
    /\ storage = None

\* C8: is_active() returns true exactly when a record is cached, it is not
\* blocked, it has no expiry or its expiry is not before the clock, and
\* this machine is among the record's activated machines.
C8_IsActiveDefinition ==
    [][\A t \in Threads :
         Leaves(t, "ia_in")
         => /\ ReturnsNow(t, "is_active", "ia_in")
            /\ ret'[1].val =
                 << /\ _license # None
                    /\ ~_license[1].block
                    /\ (_license[1].expires = None
                        \/ _license[1].expires[1] >= clock)
                    /\ LocalMachine \in _license[1].activated_machines >>
            /\ UNCHANGED shared]_vars

\* C8 witness: is_active() has just returned true for a record whose expiry
\* is the current instant.
C8_Witness ==
    /\ ret # None /\ ret[1].op = "is_active" /\ ret[1].val = <<TRUE>>
    /\ _license # None /\ _license[1].expires = Some(clock)

\* The text of an expiry date as YYYY-MM-DD, written out for the two
\* expiries of the model.
C9_DateText(expires) ==
    IF expires = ExpSoon THEN <<"2","0","2","5","-","0","1","-","0","1">>
    ELSE <<"2","0","2","4","-","1","2","-","3","0">>

\* C9: inactive_reason() returns the message of the first condition that
\* holds, in the order: no record, blocked, expired, wrong machine.  A
\* blocked record reports the blocked message whatever its expiry and its
\* machine; an expired record reports "Your license expired on YYYY-MM-DD."
\* whatever its machine.
C9_FirstMatchingReason ==
    [][\A t \in Threads :
         Leaves(t, "ir_in")
         => /\ ReturnsNow(t, "inactive_reason", "ir_in")
            /\ (_license = None) => ret'[1].val = MSG_NOT_ACTIVATED
            /\ (_license # None /\ _license[1].block)
               => ret'[1].val = MSG_BLOCKED
            /\ (_license # None /\ ~_license[1].block
                /\ IsExpired(_license[1], clock))
               => ret'[1].val = <<"Your license expired on ">>
                                \o C9_DateText(_license[1].expires[1]) \o <<".">>
            /\ (_license # None /\ ~_license[1].block
                /\ ~IsExpired(_license[1], clock)
                /\ ~IsOnRightMachine(_license[1]))
               => ret'[1].val = MSG_WRONG_MACHINE]_vars

\* C9 witness: inactive_reason() has just returned the expired message, with
\* the date 2024-12-30, for a record that is expired and bound to another
\* machine.
C9_Witness ==
    /\ ret # None /\ ret[1].op = "inactive_reason"
    /\ _license # None /\ ~_license[1].block
    /\ IsExpired(_license[1], clock) /\ ~IsOnRightMachine(_license[1])
    /\ ret[1].val = <<"Your license expired on ",
                      "2","0","2","4","-","1","2","-","3","0", ".">>

\* C10 as stated: while the license is active, inactive_reason() returns no
\* message and the message of status() is None.
C10_ActiveYieldsNoReason ==
    [][\A t \in Threads :
         /\ (Leaves(t, "ir_in") /\ _is_active_unlocked(_license, clock))
            => ret'[1].val = None
         /\ (Leaves(t, "st_in2") /\ _is_active_unlocked(_license, clock))
            => ret'[1].val[1].message = None]_vars

\* The pc values of the locked sections.
InLock == {LockSites[l] : l \in DOMAIN LockSites}

\* C11: with activate(), refresh() and deactivate() running concurrently,
\* every status() snapshot is taken from the one record cached at the
\* moment status() holds the lock: the active flag, the blocked flag, the
\* masked key, the expiry and the message all derive from it, the message
\* is None exactly when active is true, and the message is the blocked one
\* exactly when blocked is true.  The cached state changes only in a step of
\* the thread that holds the lock, so it cannot change under status().
C11_SnapshotOfOneRecord ==
    [][/\ \A t \in Threads :
            Leaves(t, "st_in2")
            => LET s == ret'[1].val[1]
               IN  /\ ReturnsNow(t, "status", "st_in2")
                   /\ _lock = Some(t)
                   /\ s.active = _is_active_unlocked(_license, clock)
                   /\ s.blocked = (_license # None /\ _license[1].block)
                   /\ s.license_key = IF _license = None THEN None
                                      ELSE _mask_key(Some(_license[1].key))
                   /\ s.expires_at = IF _license = None \/ _license[1].expires = None
                                     THEN None
                                     ELSE Some(isoformat(_license[1].expires[1]))
                   /\ s.message = IF s.active THEN None
                                  ELSE Some(_inactive_reason_unlocked(_license, clock))
                   /\ s.active <=> (s.message = None)
                   /\ s.blocked <=> (s.message = Some(MSG_BLOCKED))
                   /\ s.active => (~s.blocked /\ s.license_key # None)
       /\ (<<_license, _license_string, _last_refresh>>' #
              <<_license, _license_string, _last_refresh>>)
          => \E t \in Threads :
                _lock = Some(t) /\ pc[t] \in InLock /\ pc'[t] # pc[t]]_vars

\* C11 witness: status() has just returned a blocked snapshot to one caller
\* while another caller's activate() waits for the lock to commit a record
\* that is not blocked.
C11_Witness ==
    /\ ret # None /\ ret[1].op = "status" /\ ret[1].thread = "c1"
    /\ ret[1].val[1].blocked
    /\ ret[1].val[1].message = Some(MSG_BLOCKED)
    /\ pc["c2"] = "av_lock"
    /\ ~frame["c2"].result[1].block

\* C12: status() does not wait for the refresh it launches and does not
\* report its outcome.  When the policy is due status() starts a worker
\* thread and goes straight on to its snapshot; no step of status() raises,
\* and what it returns is the snapshot of the cache at that moment.  A
\* background refresh that ends, well or badly, is only logged: the step in
\* which it ends is the worker's own and moves no caller, and whatever a
\* caller returns or raises comes from a step of that caller's own call.
C12_BackgroundRefreshIsDetached ==
    [][/\ \A t \in Callers :
            /\ (pc[t] = "st_spawn" /\ pc'[t] # pc[t])
               => /\ pc'[t] = "st_lock2"
                  /\ ret' = None
                  /\ \E w \in Workers : pc[w] = "idle" /\ pc'[w] = "rf_lock1"
                  /\ UNCHANGED <<shared, _lock>>
            /\ (OpOf(pc[t]) = "status" /\ pc'[t] # pc[t])
               => \/ ret' = None /\ OpOf(pc'[t]) = "status"
                  \/ /\ ReturnsNow(t, "status", "st_in2")
                     /\ ret'[1].val = <<status_dict(_license, clock)>>
       /\ \A w \in Workers :
            (pc[w] # "idle" /\ pc'[w] = "idle")
            => /\ ret' # None
               /\ ret'[1].thread = w
               /\ ret'[1].kind = "logged"
               /\ \A c \in Callers : pc'[c] = pc[c] /\ frame'[c] = frame[c]
       /\ (ret' # None /\ ret'[1].thread \in Callers)
          => /\ ret'[1].kind # "logged"
             /\ pc[ret'[1].thread] # "idle" \/ ret'[1].op = "activate"
             /\ pc[ret'[1].thread] # "idle"
                => OpOf(pc[ret'[1].thread]) = ret'[1].op
             /\ \A w \in Workers : pc'[w] = pc[w]]_vars

\* C12 witness: a background refresh has just failed with "Could not
\* contact the server.", which is logged, while the caller whose status()
\* is still running waits to take its snapshot.
C12_Witness ==
    /\ ret # None /\ ret[1].thread = "w1" /\ ret[1].raised
    /\ ret[1].kind = "logged"
    /\ ret[1].val = MSG_SERVER_UNREACHABLE
    /\ pc["c1"] = "st_lock2"

\* C13: the refresh policy is false when no key is cached, else false when
\* the cached record is blocked, else true when nothing was stamped in this
\* process, else true exactly when more than 3600 seconds passed since the
\* stamp.  status() starts a background refresh exactly when the policy, as
\* status() evaluated it under the lock, is true; nothing else starts one.
C13_RefreshPolicy ==
    [][/\ \A t \in Callers :
            /\ (pc[t] = "st_in1" /\ pc'[t] # pc[t])
               => LET due == IF _license_string = None THEN FALSE
                             ELSE IF _license # None /\ _license[1].block THEN FALSE
                             ELSE IF _last_refresh = None THEN TRUE
                             ELSE clock - _last_refresh[1] > 3600
                  IN  pc'[t] = IF due THEN "st_spawn" ELSE "st_lock2"
            /\ (pc[t] = "st_spawn" /\ pc'[t] # pc[t])
               => \E w \in Workers : pc[w] = "idle" /\ pc'[w] = "rf_lock1"
       /\ \A w \in Workers :
            (pc[w] = "idle" /\ pc'[w] # "idle")
            => /\ pc'[w] = "rf_lock1"
               /\ \E t \in Callers : pc[t] = "st_spawn" /\ pc'[t] = "st_lock2"]_vars

\* C13 witness: status() is about to start a background refresh because the
\* stamp of a non-blocked cached record is two hours old and nothing else
\* makes the policy true.
C13_Witness ==
    /\ pc["c1"] = "st_spawn"
    /\ _license # None /\ ~_license[1].block
    /\ _last_refresh # None /\ clock - _last_refresh[1] = 2 * 3600

\* The lock is held by exactly the thread that is inside a `with` block,
\* and so by no thread that is inside Key.activate.
C14_LockHolder ==
    /\ \A t \in Threads : (_lock = Some(t)) <=> (pc[t] \in InLock)
    /\ \A t \in Threads : pc[t] \in CallSites => _lock # Some(t)

\* C14: no thread holds the lock while it is inside the authority call.
\* activate() enters the call without having taken the lock; refresh()
\* enters it in the step that releases the lock under which it read the
\* cached key and record.  A call that goes on after the authority answered
\* first waits for the lock again, and commits under that new acquisition.
C14_NoLockInAuthorityCall ==
    [][/\ C14_LockHolder'
       /\ \A t \in Threads :
            /\ (pc'[t] = "av_call" /\ pc[t] # "av_call")
               => pc[t] = "idle" /\ UNCHANGED _lock /\ _lock # Some(t)
            /\ (pc'[t] = "rf_call" /\ pc[t] # "rf_call")
               => /\ pc[t] = "rf_in1" /\ _lock = Some(t) /\ _lock' = None
                  /\ frame'[t].key = _license_string
                  /\ frame'[t].existing = _license
            /\ (pc[t] \in CallSites /\ pc'[t] # pc[t])
               => /\ pc'[t] \in {"idle", "av_lock", "rf_lockP", "rf_lockC"}
                  /\ UNCHANGED <<shared, _lock>>
            /\ (pc[t] \in DOMAIN LockSites /\ pc'[t] # pc[t])
               => _lock = None /\ _lock' = Some(t) /\ UNCHANGED shared]_vars

\* C14 witness: a background refresh is inside the authority call while a
\* caller holds the lock for an activate() commit.
C14_Witness ==
    /\ pc["w1"] = "rf_call"
    /\ pc["c1"] = "av_in"
    /\ _lock = Some("c1")

\* The pc values of a thread inside is_active(), inactive_reason() or
\* status().
ReadSites ==
    {"ia_lock", "ia_in", "ir_lock", "ir_in",
     "st_lock1", "st_in1", "st_spawn", "st_lock2", "st_in2"}

C16_CommitsAreWhole ==
    [][\A t \in Threads :
         (Leaves(t, "av_in") \/ Leaves(t, "rf_inC"))
         => /\ _license' = frame[t].result
            /\ _license_string' = Some(frame[t].result[1].key)
            /\ _last_refresh' = Some(clock)]_vars

\* The license file holds the serialization of the cached record, or there
\* is neither a file nor a cached record.
C17_FileMatchesCache ==
    \/ _license = None /\ storage = None
    \/ _license # None /\ storage = Some(save_as_string(_license[1]))

\* C17 as stated: whenever no thread holds the lock, the license file holds
\* the serialization of the cached record or is absent with no record
\* cached (no write or delete fails in this specification).
C17_FileAlwaysMatchesCache == (_lock = None) => C17_FileMatchesCache

\* C17: when no write or delete fails, then whenever no thread holds the
\* lock the license file holds the serialization of the cached record, or
\* is absent with no record cached, or no record is cached and the file is
\* one that did not load when the manager was constructed (it has not been
\* written since).
C17_FileMatchesCacheOrNeverLoaded ==
    (_lock = None)
    => \/ C17_FileMatchesCache
       \/ /\ _license = None
          /\ _license_string = None
          /\ _last_refresh = None
          /\ storage # None
          /\ _load_state(storage, config, StartTime) = <<None, None>>

\* C17 witness: a refresh has just applied the blocked patch, and the file
\* holds the blocked record.
C17_Witness ==
    /\ _lock = None
    /\ ret # None /\ ret[1].op = "refresh" /\ ret[1].at = "rf_inP"
    /\ _license # None /\ _license[1].block
    /\ _license[1].sign_date = StartTime
    /\ storage = Some(save_as_string(_license[1]))

\* C18: a failure to write or to delete the license file never raises and
\* never undoes the change in memory.  Whatever becomes of the file, the
\* commit of activate() returns with the authority's record, its key and the
\* commit time cached; the commit of refresh() returns with the authority's
\* record (or the blocked copy of the record it read) and the commit time
\* cached; and a deactivate() that found a key returns with the cached state
\* cleared.  The file is then the new content, or what it was, or blank.
C18_PersistenceFailureIsSwallowed ==
    [][\A t \in Threads :
         /\ Leaves(t, "av_in")
            => /\ ReturnsNow(t, "activate", "av_in")
               /\ _license' = frame[t].result
               /\ _license_string' = Some(frame[t].result[1].key)
               /\ _last_refresh' = Some(clock)
               /\ storage' \in {Some(save_as_string(_license'[1])), storage,
                                Some(BlankBlob)}
         /\ Leaves(t, "rf_inC")
            => /\ ReturnsNow(t, "refresh", "rf_inC")
               /\ _license' = frame[t].result
               /\ _last_refresh' = Some(clock)
               /\ storage' \in {Some(save_as_string(_license'[1])), storage,
                                Some(BlankBlob)}
         /\ Leaves(t, "rf_inP")
            => /\ ReturnsNow(t, "refresh", "rf_inP")
               /\ _license' = Some([frame[t].existing[1] EXCEPT !.block = TRUE])
               /\ _last_refresh' = Some(clock)
               /\ storage' \in {Some(save_as_string(_license'[1])), storage,
                                Some(BlankBlob)}
         /\ (Leaves(t, "de_in") /\ _license_string # None)
            => /\ ReturnsNow(t, "deactivate", "de_in")
               /\ _license' = None
               /\ _license_string' = None
               /\ _last_refresh' = None
               /\ storage' \in {None, storage}]_vars

\* C18 witness: deactivate() has just returned with the cached state
\* cleared although the license file, which holds a record, is still there.
C18_Witness ==
    /\ ret # None /\ ret[1].op = "deactivate" /\ ~ret[1].raised
    /\ _license = None /\ _license_string = None
    /\ storage # None /\ storage[1].kind = "signed"

\* License files that do not load: blank text, text that does not decode, a
\* record altered after signing, a signature older than the tolerance.
C19_UnloadableFiles ==
    {Some(BlankBlob), Some(GarbageBlob), Some(Tampered(ValidRecord)),
     Some(save_as_string(StaleRecord))}

\* C19: a manager constructed on a license file that does not load starts
\* with no cached record, no cached key and no stamp, and is not active; as
\* long as nothing is cached and that file is there, is_active() returns
\* false and refresh() and deactivate() raise "No license has been
\* activated." and change nothing.
C19_UnloadableFileStartsUnactivated ==
    /\ (storage \in C19_UnloadableFiles)
       => /\ _license = None
          /\ _license_string = None
          /\ _last_refresh = None
          /\ ~_is_active_unlocked(_license, clock)
    /\ [][\A t \in Threads :
            (storage \in C19_UnloadableFiles /\ _license = None
             /\ _license_string = None)
            => /\ Leaves(t, "ia_in") => ret'[1].val = <<FALSE>>
               /\ (pc[t] = "rf_in1" /\ pc'[t] # pc[t])
                  => /\ RaisesNow(t, "refresh")
                     /\ ret'[1].val = MSG_NONE_ACTIVATED
                     /\ UNCHANGED shared
               /\ Leaves(t, "de_in")
                  => /\ RaisesNow(t, "deactivate")
                     /\ ret'[1].val = MSG_NONE_ACTIVATED
                     /\ UNCHANGED shared]_vars

\* C19 witness: refresh() has just raised "No license has been activated."
\* on a manager whose license file holds a record altered after signing.
C19_Witness ==
    /\ ret # None /\ ret[1].op = "refresh" /\ ret[1].raised
    /\ ret[1].val = MSG_NONE_ACTIVATED
    /\ _license = None
    /\ storage = Some(Tampered(ValidRecord))

\* C20: refresh() and deactivate() called while no key is cached raise
\* "No license has been activated." from their first locked section: the
\* call ends there, so Key.activate is not entered, and the cached record,
\* the cached key, the stamp and the license file stay as they were.
C20_NothingCachedNothingDone ==
    [][\A t \in Threads :
         /\ (pc[t] = "rf_in1" /\ pc'[t] # pc[t] /\ _license_string = None)
            => /\ RaisesNow(t, "refresh")
               /\ ret'[1].val = MSG_NONE_ACTIVATED
               /\ pc'[t] = "idle"
               /\ answer' = None
               /\ UNCHANGED shared
         /\ (pc[t] = "de_in" /\ pc'[t] # pc[t] /\ _license_string = None)
            => /\ RaisesNow(t, "deactivate")
               /\ ret'[1].val = MSG_NONE_ACTIVATED
               /\ pc'[t] = "idle"
               /\ answer' = None
               /\ UNCHANGED shared
         /\ (pc'[t] = "rf_call" /\ pc[t] # "rf_call")
            => (_license_string # None /\ frame'[t].key = _license_string)]_vars

\* C20 witness: deactivate() has just raised "No license has been
\* activated." on a manager that has a license file but no cached key.
C20_Witness ==
    /\ ret # None /\ ret[1].op = "deactivate" /\ ret[1].raised
    /\ ret[1].val = MSG_NONE_ACTIVATED
    /\ _license_string = None
    /\ storage # None

\* This step, thread t's `op` call raises msg without the authority having
\* been called, and nothing cached or stored changes.
C21_RaisesUntouched(t, op, msg) ==
    /\ RaisesNow(t, op)
    /\ ret'[1].val = msg
    /\ pc'[t] = "idle"
    /\ answer' = None
    /\ UNCHANGED shared

\* C21: activate(license_key) with a key that is None, empty or all blanks
\* raises "A license key is required.", whether or not an access token is
\* configured; with any other key and no access token it raises "Licensing
\* is not configured. Missing access token.".  Both raise in the first step
\* of the call, before Key.activate is entered, and leave the cached record,
\* the cached key, the stamp and the license file as they were.
C21_ActivateValidatesFirst ==
    [][\A t \in Threads : \A k \in RawKeys :
         activate_begin(t, k, EnvData)
         => IF \A i \in 1..Len(k) : k[i] \in {" ", "\t", "\n"}
            THEN C21_RaisesUntouched(t, "activate", MSG_KEY_REQUIRED)
            ELSE IF ~config.token
            THEN C21_RaisesUntouched(t, "activate", MSG_NO_TOKEN)
            ELSE ret' = None \/ ret'[1].val = MSG_NO_RSA_KEY]_vars

\* C21 witness: activate() has just raised "A license key is required." on
\* a manager that has no access token configured and a record cached.
C21_Witness ==
    /\ ret # None /\ ret[1].op = "activate" /\ ret[1].raised
    /\ ret[1].val = MSG_KEY_REQUIRED
    /\ ~config.token
    /\ _license # None

\* Nothing is cached and there is no license file: the state of a manager
\* constructed without one.
C22_Fresh ==
    /\ storage = None
    /\ _license = None
    /\ _license_string = None
    /\ _last_refresh = None

\* C22: a manager constructed with no license file has no cached record, no
\* cached key and no stamp.  In that state is_active() returns false,
\* status() returns active = false with the message "BeatChecker is not
\* activated. Please enter a license key.", and status() goes from its
\* policy check straight to its snapshot: it starts no background refresh.
C22_FreshManagerIsUnactivated ==
    /\ (storage = None) => C22_Fresh
    /\ [][\A t \in Threads :
            C22_Fresh
            => /\ Leaves(t, "ia_in") => ret'[1].val = <<FALSE>>
               /\ Leaves(t, "st_in2")
                  => /\ ReturnsNow(t, "status", "st_in2")
                     /\ ret'[1].val[1].active = FALSE
                     /\ ret'[1].val[1].message = Some(MSG_NOT_ACTIVATED)
                     /\ ret'[1].val[1].license_key = None
               /\ (pc[t] = "st_in1" /\ pc'[t] # pc[t])
                  => pc'[t] = "st_lock2"
               /\ \A w \in Workers : pc'[w] = pc[w]]_vars

\* C22 witness: status() has just returned the not-activated snapshot on a
\* manager with no license file, and no worker thread runs.
C22_Witness ==
    /\ C22_Fresh
    /\ ret # None /\ ret[1].op = "status"
    /\ ret[1].val[1].message = Some(MSG_NOT_ACTIVATED)
    /\ \A w \in Workers : pc[w] = "idle"

C24_Significant(key) == SelectSeq(key, LAMBDA ch : ch \notin {"-", " "})

\* The masked form of a key, as the rule states it.
C24_Masked(key) ==
    LET rest == C24_Significant(key)
    IN  IF Len(rest) <= 4 THEN rest
        ELSE <<"*", "*", "*">>
             \o <<rest[Len(rest) - 3], rest[Len(rest) - 2],
                  rest[Len(rest) - 1], rest[Len(rest)]>>

\* C24: the key status() shows is the masked form of the cached record's
\* key: the key without hyphens and spaces when that is 4 characters or
\* fewer, and "***" with its last 4 characters otherwise, so never a key
\* with more than 4 significant characters in full; it is None when no
\* record is cached.  "ABCD-1234-EFGH-5678" is shown as "***5678" and
\* "AB" as "AB".
C24_KeyIsMasked ==
    [][\A t \in Callers :
         Leaves(t, "st_in2")
         => /\ ReturnsNow(t, "status", "st_in2")
            /\ ret'[1].val[1].license_key
                 = IF _license = None THEN None
                   ELSE Some(C24_Masked(_license[1].key))
            /\ (_license # None /\ Len(C24_Significant(_license[1].key)) > 4)
                 => /\ ret'[1].val[1].license_key # Some(_license[1].key)
                    /\ Len(ret'[1].val[1].license_key[1]) = 7
            /\ (_license # None /\ _license[1].key = KEY_GROUPED)
                 => ret'[1].val[1].license_key
                      = Some(<<"*","*","*","5","6","7","8">>)
            /\ (_license # None /\ _license[1].key = KEY_TWO)
                 => ret'[1].val[1].license_key = Some(<<"A","B">>)
            /\ (_license # None /\ _license[1].key = KEY_FOUR_HYPHEN)
                 => ret'[1].val[1].license_key = Some(<<"A","B","C","D">>)
            /\ (_license # None /\ _license[1].key = KEY_FIVE_SPACED)
                 => ret'[1].val[1].license_key
                      = Some(<<"*","*","*","B","C","D","E">>)]_vars

\* status() showed "***5678" for the cached key "ABCD-1234-EFGH-5678".
C24_Witness ==
    /\ ret # None
    /\ ret[1].op = "status"
    /\ ~ret[1].raised
    /\ _license # None
    /\ _license[1].key = KEY_GROUPED
    /\ ret[1].val[1].license_key = Some(<<"*","*","*","5","6","7","8">>)

\* The background refreshes in flight: the worker threads that run
\* refresh(), and those of them that are inside Key.activate.
C25_InFlight == {w \in Workers : pc[w] # "idle"}
C25_Calling == {w \in Workers : pc[w] = "rf_call"}

\* C25: at most one background refresh is in flight at any time: never two
\* worker threads running refresh(), and so never two of them inside the
\* authority call together.
C25_SingleFlight ==
    /\ Cardinality(C25_InFlight) <= 1
    /\ Cardinality(C25_Calling) <= 1

\* This step is a step of thread t's is_active() or inactive_reason() call.
C26_ReadStep(t) ==
    \/ pc[t] = "idle" /\ pc'[t] \in {"ia_lock", "ir_lock"}
    \/ pc[t] \in {"ia_lock", "ia_in", "ir_lock", "ir_in"} /\ pc'[t] # pc[t]

\* C26: no step of is_active() or inactive_reason() receives an answer of
\* the authority, enters an authority call, starts a worker thread or
\* changes the cached record, the cached key, the last-refresh stamp or
\* the license file; a worker thread is only ever started by a step of
\* status(), and the authority call of a refresh is only entered by such
\* a worker or by a caller's refresh().
C26_ReadsDoNotRevalidate ==
    [][/\ \A t \in Callers :
            C26_ReadStep(t)
            => /\ shared' = shared
               /\ answer' = None
               /\ pc'[t] \in {"ia_lock", "ia_in", "ir_lock", "ir_in", "idle"}
               /\ \A u \in Threads \ {t} : pc'[u] = pc[u]
       /\ \A w \in Workers :
            (pc[w] = "idle" /\ pc'[w] # "idle")
            => \E t \in Callers : pc[t] = "st_spawn" /\ pc'[t] = "st_lock2"
       /\ \A u \in Threads :
            (pc[u] # "rf_call" /\ pc'[u] = "rf_call") => pc[u] = "rf_in1"]_vars

\* is_active() returned on a cached license whose refresh is due, and no
\* worker thread runs.
C26_Witness ==
    /\ ret # None
    /\ ret[1].op = "is_active"
    /\ _should_refresh(_license, _license_string, _last_refresh, clock)
    /\ \A w \in Workers : pc[w] = "idle"

\* What is_active() makes of record r at time t, from r alone.
C27_ActiveBy(r, t) ==
    /\ ~r.block
    /\ (r.expires = None \/ r.expires[1] >= t)
    /\ LocalMachine \in r.activated_machines

\* C27: an answer of Key.activate carrying a record takes refresh() to its
\* commit whatever the record says (blocked, expired, bound to another
\* machine): the call does not raise, the commit makes that record the
\* cached record, stamps the time of the commit and writes the record to
\* the file (unless the write fails), leaving the cached key as it is;
\* is_active(), inactive_reason() and status() afterwards follow from the
\* cached record alone.
C27_RefreshCommitsAnyRecord ==
    [][\A t \in Threads :
         /\ (answer' # None /\ answer'[1].thread = t /\ answer'[1].op = "refresh"
              /\ answer'[1].result[1] # None)
              => /\ ret' = None
                 /\ pc'[t] = "rf_lockC"
                 /\ frame'[t].result = answer'[1].result[1]
                 /\ shared' = shared
         /\ Leaves(t, "rf_inC")
              => /\ ~ret'[1].raised
                 /\ _license' = frame[t].result
                 /\ _license' # None
                 /\ _last_refresh' = Some(clock)
                 /\ _license_string' = _license_string
                 /\ storage' \in {Some(save_as_string(frame[t].result[1])),
                                  storage, Some(BlankBlob)}
                 /\ _is_active_unlocked(_license', clock)
                      = C27_ActiveBy(frame[t].result[1], clock)
         /\ (Leaves(t, "st_in2") /\ _license # None)
              => /\ ret'[1].val[1].active = C27_ActiveBy(_license[1], clock)
                 /\ ret'[1].val[1].blocked = _license[1].block
         /\ (Leaves(t, "ia_in") /\ _license # None)
              => ret'[1].val = <<C27_ActiveBy(_license[1], clock)>>]_vars

\* A refresh() has just committed a record that is blocked, expired and
\* bound to another machine.
C27_Witness ==
    /\ ret # None
    /\ ret[1].op = "refresh"
    /\ ret[1].at = "rf_inC"
    /\ ~ret[1].raised
    /\ _license # None
    /\ _license[1].block
    /\ IsExpired(_license[1], clock)
    /\ ~IsOnRightMachine(_license[1])
    /\ _last_refresh = Some(clock)

\* C28: every commit (of activate(), of refresh(), of the blocked patch)
\* stamps the last-refresh time with the time of the commit, and a status()
\* on a cached record that was committed reports that stamp, the one the
\* refresh policy reads, as last_validated_at.
C28_LastValidatedIsCommitTime ==
    [][\A t \in Threads :
         /\ (Leaves(t, "av_in") \/ Leaves(t, "rf_inP") \/ Leaves(t, "rf_inC"))
              => (~ret'[1].raised => _last_refresh' = Some(clock))
         /\ (Leaves(t, "st_in2") /\ _license # None /\ _last_refresh # None)
              => ret'[1].val[1].last_validated_at
                   = Some(isoformat(_last_refresh[1]))]_vars

\* C29: an activate() whose authority call fails with a message containing
\* "blocked" (in any letter case) raises with that message, as for any
\* other failure, and the step leaves the cached record, its block flag,
\* the cached key, the last-refresh stamp and the license file as they
\* were; a license that was active stays active.  The same answer to a
\* refresh() that read a cached record takes it to the blocked patch.
C29_BlockedCaseIsRefreshOnly ==
    [][\A t \in Threads :
         /\ (Rejects(t, "activate") /\ MentionsBlocked(answer'[1].result[2]))
              => /\ RaisesNow(t, "activate")
                 /\ ret'[1].val = answer'[1].result[2]
                 /\ pc'[t] = "idle"
                 /\ shared' = shared
                 /\ ActiveKept
                 /\ _license # None => _license'[1].block = _license[1].block
         /\ (Rejects(t, "refresh") /\ MentionsBlocked(answer'[1].result[2])
              /\ frame[t].existing # None)
              => ret' = None /\ pc'[t] = "rf_lockP"]_vars

\* An activate() has just raised with the authority's "This key has been
\* Blocked" while the cached license, for the same key, is active and not
\* marked blocked.
C29_Witness ==
    /\ ret # None
    /\ ret[1].op = "activate"
    /\ ret[1].raised
    /\ ret[1].val = MSG_SERVER_BLOCKED
    /\ answer # None
    /\ answer[1].result = <<None, MSG_SERVER_BLOCKED>>
    /\ _license # None
    /\ _license[1].key = KEY_LONG
    /\ ~_license[1].block
    /\ _is_active_unlocked(_license, clock)

\* What a manager constructed on the license file as this step leaves it
\* starts with.
C30_Restarted == _load_state(storage', config, clock')

C31_GateBeforeWork ==
    [][\A t \in Callers : \A ep \in Endpoints :
         LET at == EndpointSites[ep]
         IN  /\ (pc[t] # at.work /\ pc'[t] = at.work)
                  => pc[t] = at.in1 /\ _is_active_unlocked(_license, clock)
             /\ (pc[t] = at.in1 /\ pc'[t] # pc[t]
                  /\ ~_is_active_unlocked(_license, clock))
                  => pc'[t] = at.lock2 /\ ret' = None
             /\ (pc[t] = at.lock2 /\ pc'[t] # pc[t]) => pc'[t] = at.in2
             /\ (pc[t] = at.in2 /\ pc'[t] # pc[t])
                  => /\ pc'[t] = "idle"
                     /\ ret' # None
                     /\ ret'[1].op = ep
                     /\ ret'[1].kind = "http_403"
                     /\ ret'[1].val = _inactive_reason_unlocked(_license, clock)
             /\ (ret' # None /\ ret'[1].thread = t /\ ret'[1].op = ep)
                  => IF ret'[1].kind = "http_403"
                     THEN pc[t] = at.in2
                     ELSE pc[t] = at.work
             /\ (pc[t] \in {at.lock1, at.in1, at.lock2, at.in2, at.work}
                  /\ pc'[t] # pc[t])
                  => shared' = shared /\ answer' = None]_vars

\* An analyze request has just been rejected with 403 and the blocked
\* reason.
C31_Witness ==
    /\ ret # None
    /\ ret[1].op = "analyze"
    /\ ret[1].kind = "http_403"
    /\ ret[1].val = MSG_BLOCKED
    /\ _license # None
    /\ _license[1].block

\* C32: whenever no thread holds the lock, a record is cached exactly when
\* a key is cached, and the cached key is the key of the cached record.
C32_KeyMatchesRecord ==
    _lock = None
    => /\ (_license # None) <=> (_license_string # None)
       /\ _license # None => _license_string = Some(_license[1].key)

\* The manager is as deactivate() leaves it: nothing cached, no file.
C33_Unactivated ==
    _license = None /\ _license_string = None /\ storage = None

\* C33: once the manager is as deactivate() leaves it, it stays so until an
\* activate() commits: no other step, and so no commit or blocked patch of
\* a refresh() that read its key before the deactivate(), caches a record
\* or creates the license file.
C33_DeactivateIsFinal ==
    [][C33_Unactivated
       => \/ _license' = None /\ storage' = None
          \/ \E t \in Threads : Leaves(t, "av_in")]_vars

\* Record r with its block flag set.
C34_Marked(r) == [r EXCEPT !.block = TRUE]

\* C34: when a refresh() comes to its blocked patch and the cached record
\* is no longer the one it read (an activate() or another refresh()
\* committed a record in between), the patch does not put the record it
\* read back: the cached record stays the newer one, at most marked
\* blocked.
C34_NoStaleOverwrite ==
    [][\A t \in Threads :
         (Leaves(t, "rf_inP") /\ _license # None
          /\ _license # frame[t].existing)
         => /\ _license' # None
            /\ C34_Marked(_license'[1]) = C34_Marked(_license[1])]_vars

C36_Due == _should_refresh(_license, _license_string, _last_refresh, clock)
C36_DueNext == _should_refresh(_license', _license_string', _last_refresh', clock')

\* This step commits or clears the cached state: the commit of an
\* activate() or a refresh(), the blocked patch, or a deactivate().
C36_Writes ==
    \E t \in Threads :
        Leaves(t, "av_in") \/ Leaves(t, "rf_inC") \/ Leaves(t, "rf_inP")
        \/ Leaves(t, "de_in")

\* C36: a refresh() that raises leaves the last-refresh stamp and the rest
\* of the cached state as they were, and a background refresh that raises
\* leaves the policy due; a policy that is due stays due, as time passes
\* and through failed attempts, until a commit, a blocked patch or a
\* deactivate(); and every status() call that finds it due starts a
\* background refresh, whatever came before.
C36_FailedRefreshStaysDue ==
    [][/\ \A t \in Threads :
            RaisesNow(t, "refresh")
            => /\ shared' = shared
               /\ t \in Workers => C36_DueNext
       /\ (C36_Due /\ ~C36_Writes) => C36_DueNext
       /\ \A t \in Callers :
            /\ (pc[t] = "st_in1" /\ pc'[t] # pc[t] /\ C36_Due)
                 => pc'[t] = "st_spawn"
            /\ (pc[t] = "st_spawn" /\ pc'[t] # pc[t])
                 => \E w \in Workers : pc[w] = "idle" /\ pc'[w] = "rf_lock1"]_vars

\* A background refresh has just failed with "Could not contact the
\* server." on a cached license that is not blocked, whose stamp, from an
\* earlier commit, is more than an hour old: the policy is still due.
C36_Witness ==
    /\ ret # None
    /\ ret[1].thread \in Workers
    /\ ret[1].op = "refresh"
    /\ ret[1].raised
    /\ ret[1].val = MSG_SERVER_UNREACHABLE
    /\ _license # None
    /\ ~_license[1].block
    /\ _last_refresh # None
    /\ clock - _last_refresh[1] > REFRESH_AFTER_SECONDS
    /\ C36_Due

\* The last-refresh stamp is at most an hour old.
C37_Fresh ==
    _last_refresh # None /\ clock - _last_refresh[1] <= REFRESH_AFTER_SECONDS

\* Worker w's refresh has just committed: the cached record is the one it
\* committed and the stamp is the time of the commit.
C37_Committed(w) ==
    /\ ret # None
    /\ ret[1].thread = w
    /\ ret[1].at = "rf_inC"
    /\ ~ret[1].raised
    /\ _license # None
    /\ _last_refresh = Some(clock)

============================================================================
